---- MODULE Spec2Model ----
(***************************************************************************)
(* Placement Management System: the OTP-gated account provisioner.         *)
(*                                                                         *)
(* Two edge functions over the hosted datastore are modelled:              *)
(*   send-otp    supabase/functions/send-otp/index.ts (handler, l.34-187)  *)
(*   verify-otp  unnamed/part_000                     (handler, l.200-407) *)
(*                                                                         *)
(* A request is handled in one step (Spec serves one request at a time);   *)
(* the response is kept in `last` until the caller has received it.        *)
(* A datastore call can fail where the handler inspects the error the call *)
(* returns; a handler is the set of outcomes its run can have.             *)
(*                                                                         *)
(* The job recommender (unnamed/part_003) is modelled next to them and is  *)
(* exercised on its own by RecSpec; there the delete of the old rows can   *)
(* fail as well, although the handler does not look at its result.         *)
(***************************************************************************)
EXTENDS Integers, Sequences, FiniteSets, TLC

(* ------------------------------ bounds -------------------------------- *)
MaxRows == 2          \* code rows ever inserted into otp_verifications
MaxTime == 15         \* the clock stops at this many minutes
TickMinutes == 15     \* granularity of the clock
MaxJobs == 2          \* postings in offcampus_jobs
MaxStored == 5        \* rows in job_recommendations
MaxRecipients == 3    \* students, and parents, that a notification goes to

(* ------------------------- program constants -------------------------- *)
ExpiryMinutes == 10   \* send-otp: Date.now() + 10 * 60 * 1000
MaxAttempts == 5      \* verify-otp: otpRecord.attempts >= 5

(* ------------------------------ inputs -------------------------------- *)
Undefined == "undefined"          \* a field absent from the JSON body
Emails == {"a@x", "b@x"}
Code1 == <<"1", "2", "3", "4", "5", "6">>
Code2 == <<"6", "5", "4", "3", "2", "1">>
Codes == {Code1, Code2}           \* what Math.random may generate
Padded(c) == <<" ">> \o c \o <<" ">>
Roles == {"student", "teacher", "tpo"}
Passwords == {"pwA", "pwB"}       \* what Math.random may generate

VARIABLES
    otp_verifications,        \* table public.otp_verifications
    users,                    \* auth.users
    user_roles,               \* table public.user_roles
    profiles,                 \* table public.profiles
    pre_registered_students,  \* table public.pre_registered_students (emails)
    pre_registered_teachers,  \* table public.pre_registered_teachers (emails)
    now,                      \* wall clock, minutes
    nextId,                   \* next id of otp_verifications
    last,                     \* the response on its way to the caller
    student_profile,          \* the profiles row of the candidate (resume_skills)
    mock_results,             \* scores of the candidate's mock tests, newest first
    interactive_interviews,   \* final_score of the candidate's interviews, newest first
    offcampus_jobs,           \* table public.offcampus_jobs
    job_recommendations,      \* table public.job_recommendations, in insertion order
    recLast,                  \* the response of generate-recommendations on its way
    applications,             \* table public.applications: rows per (job, student)
    procs,                    \* handler runs in flight that other runs interleave with
    outbox                    \* the e-mail sends attempted by a bulk notification

otpVars == <<otp_verifications, users, user_roles, profiles,
             pre_registered_students, pre_registered_teachers, now, nextId, last>>
recVars == <<student_profile, mock_results, interactive_interviews,
             offcampus_jobs, job_recommendations, recLast>>
auxVars == <<applications, procs, outbox>>
vars == <<otpVars, recVars, auxVars>>

Idle == [op |-> "idle"]

(* ------------------------------ helpers ------------------------------- *)
\* (mutant) only the empty string counts as missing
FalsyEmptyOnly(x) == x = ""

\* JavaScript `!x` for a string field of a request body
Falsy(x) == x = Undefined \/ x = ""
\* `!otp`: the code is a sequence of characters, <<>> when absent or ""
NoOtp == <<>>

\* String.prototype.trim on a sequence of characters
RECURSIVE TrimLeft(_)
TrimLeft(s) == IF s # <<>> /\ Head(s) = " " THEN TrimLeft(Tail(s)) ELSE s
RECURSIVE TrimRight(_)
TrimRight(s) ==
    IF s # <<>> /\ s[Len(s)] = " " THEN TrimRight(SubSeq(s, 1, Len(s) - 1)) ELSE s
Trim(s) == TrimRight(TrimLeft(s))

\* destructuring defaults: purpose = "signup", role = "student"
Default(x, d) == IF x = Undefined THEN d ELSE x

\* a JSON response: { error, code } with a status, or { success: true, ... };
\* remaining is the number quoted in the error message, -1 when it quotes none
Response(status, error) ==
    [status |-> status, error |-> error, code |-> Undefined,
     remaining |-> -1, tempPassword |-> Undefined]
Success(tempPassword) ==
    [Response(200, Undefined) EXCEPT !.tempPassword = tempPassword]

Db == [otps |-> otp_verifications, users |-> users,
       roles |-> user_roles, profiles |-> profiles]

\* what a handler run leaves behind: tables, response, the calls made to the
\* datastore and the auth service, the e-mail dispatched (<<>> when none) and
\* the calls that returned an error
Out(db, resp, calls, mail) ==
    [db |-> db, resp |-> resp, calls |-> calls, mail |-> mail, failed |-> {}]
Failing(call, out) == [out EXCEPT !.failed = {call}]


(* ------------------------------ send-otp ------------------------------ *)
SendRequests ==
    [email : Emails \cup {Undefined},
     purpose : {Undefined, "signup", "reset"},
     role : Roles \cup {Undefined}]

\* (mutant) the students' list is consulted for every role
PreRegisteredStudentsOnly(role, email) == {email \in pre_registered_students, FALSE}

\* .from(table).select("email, name").eq("email", email).maybeSingle():
\* the values `preRegistered` can take (null when the query fails)
PreRegistered(role, email) ==
    {email \in (IF role = "teacher" THEN pre_registered_teachers
                                    ELSE pre_registered_students), FALSE}

\* (mutant) the result of the profile lookup is not looked at
ProfileFoundIgnored(email) == {TRUE}

\* .from("profiles").select("email").eq("email", email).maybeSingle():
\* the values `!(profileError || !profile)` can take
ProfileFound(email) == {\E p \in profiles : p.email = email, FALSE}

\* (mutant) the delete of the earlier unverified rows is left out
DeleteUnverifiedSkipped(rows, email) == rows

\* .delete().eq("email", email).eq("verified", false)
DeleteUnverified(rows, email) ==
    {r \in rows : ~(r.email = email /\ ~r.verified)}

\* .insert({ email, otp, expires_at }) with the column defaults of the table
NewOtpRow(email, otp) ==
    [id |-> nextId, email |-> email, otp |-> otp, created_at |-> now,
     expires_at |-> now + ExpiryMinutes, verified |-> FALSE, attempts |-> 0]

\* the datastore call of the gate of a purpose
GateCalls(purpose, role) ==
    IF purpose = "signup"
      THEN IF role = "teacher" THEN <<"select pre_registered_teachers">>
                               ELSE <<"select pre_registered_students">>
      ELSE IF purpose = "reset" THEN <<"select profiles">> ELSE <<>>

\* generate the code, delete the unverified rows, insert the row, send the mail
Issue(email, calls) ==
    LET deleted == [Db EXCEPT !.otps = DeleteUnverified(@, email)]
        after == calls \o <<"delete otp_verifications", "insert otp_verifications">>
    IN {Failing("insert otp_verifications",
                Out(deleted, Response(500, "Failed to generate OTP"), after, <<>>))}
       \cup UNION {
         LET inserted == [deleted EXCEPT !.otps = @ \cup {NewOtpRow(email, otp)}]
         IN {Failing("smtp send",
                     Out(inserted, Response(500, "smtp error"), after, <<>>)),
             Out(inserted, Success(Undefined), after, <<email, otp>>)}
         : otp \in Codes}

SendOtpHandler(req) ==
    LET email == req.email
        purpose == Default(req.purpose, "signup")
        role == Default(req.role, "student")
        calls == GateCalls(purpose, role)
    IN
    IF Falsy(email)
      THEN {Out(Db, Response(400, "Email is required"), <<>>, <<>>)}
    ELSE UNION {
      IF purpose = "signup" /\ ~preRegistered
        THEN {Out(Db, [Response(403, IF role = "teacher"
                                       THEN "not registered by TPO as a teacher"
                                       ELSE "not registered by TPO")
                         EXCEPT !.code = "EMAIL_NOT_PREREGISTERED"],
                  calls, <<>>)}
      ELSE IF purpose = "reset" /\ ~profileFound
        THEN {Out(Db, Response(404, "Email not found in our system"), calls, <<>>)}
      ELSE Issue(email, calls)
      : preRegistered \in PreRegistered(role, email),
        profileFound \in ProfileFound(email)}

SendOtp ==
    /\ last = Idle
    /\ \E req \in SendRequests : \E out \in SendOtpHandler(req) :
         LET stored == \E r \in out.db.otps : r.id = nextId
         IN /\ stored => nextId <= MaxRows
            /\ otp_verifications' = out.db.otps
            /\ nextId' = IF stored THEN nextId + 1 ELSE nextId
            /\ last' = [op |-> "send-otp", resp |-> out.resp, calls |-> out.calls,
                        mail |-> out.mail, failed |-> out.failed]
    /\ UNCHANGED <<users, user_roles, profiles, pre_registered_students,
                   pre_registered_teachers, now>>
    /\ UNCHANGED recVars
    /\ UNCHANGED auxVars

(* ----------------------------- verify-otp ----------------------------- *)
VerifyRequests ==
    [email : Emails \cup {Undefined},
     otp : {NoOtp, Padded(Code1), Code2},
     name : {Undefined, "Asha"},
     role : {Undefined, "student"},
     purpose : {Undefined, "signup", "reset"}]

\* .eq("email", email).eq("verified", false)
\* .order("created_at", { ascending: false }).limit(1).maybeSingle():
\* the rows the query may return (rows of equal created_at tie)
LatestUnverified(rows, email) ==
    LET cand == {r \in rows : r.email = email /\ ~r.verified}
    IN {r \in cand : \A s \in cand : s.created_at <= r.created_at}

\* (mutant) the comparison of the expiry check is turned round
ExpiredInverted(otpRecord) == now < otpRecord.expires_at

\* new Date(otpRecord.expires_at) < new Date()
Expired(otpRecord) == otpRecord.expires_at < now

\* (mutant) the attempt limit is off by one
AttemptsExhaustedOffByOne(otpRecord) == otpRecord.attempts > MaxAttempts

\* otpRecord.attempts >= 5
AttemptsExhausted(otpRecord) == otpRecord.attempts >= MaxAttempts

\* String(otpRecord.otp).trim() !== String(otp).trim()
Mismatch(otpRecord, otp) == Trim(otpRecord.otp) # Trim(otp)

\* (mutant) the count is raised in the datastore: attempts = attempts + 1
IncrementAttemptsAtomic(rows, otpRecord) ==
    {IF r.id = otpRecord.id THEN [r EXCEPT !.attempts = @ + 1] ELSE r : r \in rows}

\* .update({ attempts: otpRecord.attempts + 1 }).eq("id", otpRecord.id)
IncrementAttempts(rows, otpRecord) ==
    {IF r.id = otpRecord.id THEN [r EXCEPT !.attempts = otpRecord.attempts + 1]
                            ELSE r : r \in rows}

\* .update({ verified: true }).eq("id", otpRecord.id)
MarkVerified(rows, otpRecord) ==
    {IF r.id = otpRecord.id THEN [r EXCEPT !.verified = TRUE] ELSE r : r \in rows}

\* (mutant) the count is taken before the failed attempt is counted
MismatchResponseStale(otpRecord) ==
    LET remainingAttempts == MaxAttempts - otpRecord.attempts
    IN IF remainingAttempts > 0
         THEN [Response(400, "Invalid OTP. N attempts remaining")
                 EXCEPT !.remaining = remainingAttempts]
         ELSE Response(400, "Too many failed attempts. Please request a new OTP.")

\* the mismatch response: the count is quoted only while it is positive
MismatchResponse(otpRecord) ==
    LET remainingAttempts == MaxAttempts - (otpRecord.attempts + 1)
    IN IF remainingAttempts > 0
         THEN [Response(400, "Invalid OTP. N attempts remaining")
                 EXCEPT !.remaining = remainingAttempts]
         ELSE Response(400, "Too many failed attempts. Please request a new OTP.")

\* existingUser?.users?.some(u => u.email === email)
UserExists(us, email) == \E u \in us : u.email = email

\* auth.admin.createUser with the on_auth_user_created trigger
\* (handle_new_user inserts the profile row)
CreateUser(db, email, name, tempPassword) ==
    LET id == Cardinality(db.users) + 1
    IN [db EXCEPT
          !.users = @ \cup {[id |-> id, email |-> email, password |-> tempPassword]},
          !.profiles = @ \cup {[id |-> id, email |-> email, name |-> name,
                                temp_password_used |-> FALSE]}]

\* (mutant) a failed role insert removes the account that was created
AssignRoleRollsBack(db, user_id, role, roleError) ==
    IF roleError
      THEN [db EXCEPT !.users = {u \in @ : u.id # user_id},
                      !.profiles = {p \in @ : p.id # user_id}]
    ELSE [db EXCEPT !.roles = @ \cup {[user_id |-> user_id, role |-> role]}]

\* .from("user_roles").insert({ user_id, role }); roleError leaves no row
AssignRole(db, user_id, role, roleError) ==
    IF roleError THEN db
    ELSE [db EXCEPT !.roles = @ \cup {[user_id |-> user_id, role |-> role]}]

\* .from("profiles").update({ name, department, temp_password_used: false })
UpdateProfile(db, user_id, name) ==
    [db EXCEPT !.profiles =
       {IF p.id = user_id
          THEN [p EXCEPT !.name = name, !.temp_password_used = FALSE]
          ELSE p : p \in @}]

\* auth.admin.updateUserById(user.id, { password: tempPassword })
UpdatePassword(db, user_id, tempPassword) ==
    [db EXCEPT !.users =
       {IF u.id = user_id THEN [u EXCEPT !.password = tempPassword] ELSE u : u \in @}]

\* .from("profiles").update({ temp_password_used: false }).eq("id", user.id)
ClearTempPasswordUsed(db, user_id) ==
    [db EXCEPT !.profiles =
       {IF p.id = user_id THEN [p EXCEPT !.temp_password_used = FALSE] ELSE p : p \in @}]

\* the signup branch
SignupPath(req, otpRecord, tempPassword, calls) ==
    LET id == Cardinality(users) + 1
        created == CreateUser(Db, req.email, req.name, tempPassword)
        done == calls \o <<"listUsers", "createUser", "insert user_roles",
                           "update profiles", "update otp_verifications">>
    IN
    IF UserExists(users, req.email)
      THEN {Out(Db, Response(400, "A user with this email already exists"),
                calls \o <<"listUsers">>, <<>>)}
    ELSE {Failing("createUser",
                  Out(Db, Response(500, "Failed to create user account"),
                      calls \o <<"listUsers", "createUser">>, <<>>)),
          Failing("insert user_roles",
                  Out([UpdateProfile(AssignRole(created, id, req.role, TRUE),
                                     id, req.name)
                         EXCEPT !.otps = MarkVerified(@, otpRecord)],
                      Success(tempPassword), done, <<>>)),
          Out([UpdateProfile(AssignRole(created, id, req.role, FALSE),
                             id, req.name)
                 EXCEPT !.otps = MarkVerified(@, otpRecord)],
              Success(tempPassword), done, <<>>)}

\* (mutant) the row is marked verified before the password is updated
ResetPathVerifiesFirst(req, otpRecord, tempPassword, calls) ==
    LET found == {u \in users : u.email = req.email}
        user == CHOOSE u \in found : TRUE
        marked == [Db EXCEPT !.otps = MarkVerified(@, otpRecord)]
        updated == UpdatePassword(marked, user.id, tempPassword)
    IN
    IF found = {}
      THEN {Out(Db, Success(tempPassword), calls \o <<"listUsers">>, <<>>)}
    ELSE {Failing("updateUserById",
                  Out(marked, Response(500, "Failed to update password"),
                      calls \o <<"listUsers", "update otp_verifications",
                                 "updateUserById">>, <<>>)),
          Out(ClearTempPasswordUsed(updated, user.id), Success(tempPassword),
              calls \o <<"listUsers", "update otp_verifications",
                         "updateUserById", "update profiles">>, <<>>)}

\* the reset branch
ResetPath(req, otpRecord, tempPassword, calls) ==
    LET found == {u \in users : u.email = req.email}
        user == CHOOSE u \in found : TRUE
        updated == UpdatePassword(Db, user.id, tempPassword)
        cleared == ClearTempPasswordUsed(updated, user.id)
    IN
    IF found = {}
      THEN {Out(Db, Success(tempPassword), calls \o <<"listUsers">>, <<>>)}
    ELSE {Failing("updateUserById",
                  Out(Db, Response(500, "Failed to update password"),
                      calls \o <<"listUsers", "updateUserById">>, <<>>)),
          Out([cleared EXCEPT !.otps = MarkVerified(@, otpRecord)],
              Success(tempPassword),
              calls \o <<"listUsers", "updateUserById", "update profiles",
                         "update otp_verifications">>, <<>>)}

\* the handler once the lookup has returned otpRecord
Verify(req, otpRecord, calls) ==
    LET purpose == Default(req.purpose, "signup")
    IN
    IF Expired(otpRecord)
      THEN {Out(Db, Response(400, "OTP has expired"), calls, <<>>)}
    ELSE IF AttemptsExhausted(otpRecord)
      THEN {Out(Db, Response(400, "Too many failed attempts. Please request a new OTP"),
                calls, <<>>)}
    ELSE IF Mismatch(otpRecord, req.otp)
      THEN {Out([Db EXCEPT !.otps = IncrementAttempts(@, otpRecord)],
                MismatchResponse(otpRecord),
                calls \o <<"update otp_verifications">>, <<>>)}
    ELSE UNION {
      IF purpose = "signup" /\ ~Falsy(req.name) /\ ~Falsy(req.role)
        THEN SignupPath(req, otpRecord, tempPassword, calls)
      ELSE IF purpose = "reset"
        THEN ResetPath(req, otpRecord, tempPassword, calls)
      ELSE {Out(Db, Success(tempPassword), calls, <<>>)}
      : tempPassword \in Passwords}

VerifyOtpHandler(req) ==
    LET lookup == <<"select otp_verifications">>
        found == LatestUnverified(otp_verifications, req.email)
    IN
    IF Falsy(req.email) \/ req.otp = NoOtp
      THEN {Out(Db, Response(400, "Email and OTP are required"), <<>>, <<>>)}
    ELSE {Failing("select otp_verifications",
                  Out(Db, Response(500, "Failed to verify OTP"), lookup, <<>>))}
         \cup (IF found = {}
                 THEN {Out(Db, Response(404, "No OTP found for this email"),
                           lookup, <<>>)}
                 ELSE UNION {Verify(req, otpRecord, lookup) : otpRecord \in found})

VerifyOtp ==
    /\ last = Idle
    /\ \E req \in VerifyRequests : \E out \in VerifyOtpHandler(req) :
         /\ otp_verifications' = out.db.otps
         /\ users' = out.db.users
         /\ user_roles' = out.db.roles
         /\ profiles' = out.db.profiles
         /\ last' = [op |-> "verify-otp", resp |-> out.resp, calls |-> out.calls,
                     mail |-> out.mail, failed |-> out.failed]
    /\ UNCHANGED <<pre_registered_students, pre_registered_teachers, now, nextId>>
    /\ UNCHANGED recVars
    /\ UNCHANGED auxVars

(* ----------------------- generate-recommendations --------------------- *)
\* unnamed/part_003: the skill-and-performance job recommender
RecentLimit == 5      \* .limit(5) on mock_results and interactive_interviews
MinMatchScore == 15   \* if (matchScore >= 15)
StrongSkill == 70     \* skillMatch > 70
GoodSkill == 40       \* skillMatch > 40
HighScore == 70       \* avgMockScore > 70, avgInterviewScore > 70
DefaultSkillMatch == 50
NullScore == -1       \* a score column that is NULL

RecIdle == [op |-> "idle"]

\* a value of skills[] that is not a string (null)
NotAString == <<"null">>

\* skill strings, as sequences of characters
python == <<"p", "y", "t", "h", "o", "n">>
Python == <<"P", "y", "t", "h", "o", "n">>
react == <<"r", "e", "a", "c", "t">>
SQL == <<"S", "Q", "L">>

\* String.prototype.toLowerCase on the letters that occur in the skills
UpperToLower == [J |-> "j", L |-> "l", P |-> "p", Q |-> "q", R |-> "r", S |-> "s"]
ToLowerCase(s) ==
    [i \in 1..Len(s) |-> IF s[i] \in DOMAIN UpperToLower THEN UpperToLower[s[i]]
                                                        ELSE s[i]]

\* (mutant) only a prefix counts
IncludesPrefixOnly(s, t) == Len(t) <= Len(s) /\ SubSeq(s, 1, Len(t)) = t

\* String.prototype.includes: t occurs in s at some position
Includes(s, t) ==
    \E i \in 0..(Len(s) - Len(t)) : SubSeq(s, i + 1, i + Len(t)) = t

\* skill.includes(c) for a character c
HasChar(skill, c) == \E i \in 1..Len(skill) : skill[i] = c

\* the filter callback of studentSkills
KeepStudentSkill(skill) ==
    /\ skill # NotAString
    /\ skill # <<>>
    /\ ~(HasChar(skill, "[") \/ HasChar(skill, "=") \/ HasChar(skill, "{"))
    /\ Len(skill) > 1

\* (profile?.resume_skills || []).filter(...).map(s => s.toLowerCase().trim())
StudentSkills(resume_skills) ==
    LET kept == SelectSeq(resume_skills, KeepStudentSkill)
    IN [i \in 1..Len(kept) |-> Trim(ToLowerCase(kept[i]))]

\* (job.skills_required || []).map(s => s.toLowerCase())
JobSkills(job) ==
    [i \in 1..Len(job.skills_required) |-> ToLowerCase(job.skills_required[i])]

\* a JavaScript number that is a quotient of integers: n / d with d > 0
Rat(n, d) == [n |-> n, d |-> d]
RatAdd(a, b) == Rat(a.n * b.d + b.n * a.d, a.d * b.d)
RatMul(a, b) == Rat(a.n * b.n, a.d * b.d)
RatGt(a, k) == a.n > k * a.d
RatGeq(a, k) == a.n >= k * a.d
\* Math.round: the nearest integer, a half rounds up
MathRound(a) == (2 * a.n + a.d) \div (2 * a.d)

\* the number of required skills that some candidate skill matches
RECURSIVE Matches(_, _)
Matches(studentSkills, jobSkills) ==
    IF jobSkills = <<>> THEN 0
    ELSE (IF \E k \in 1..Len(studentSkills) :
                \/ Includes(studentSkills[k], Head(jobSkills))
                \/ Includes(Head(jobSkills), studentSkills[k])
            THEN 1 ELSE 0)
         + Matches(studentSkills, Tail(jobSkills))

\* (mutant) a candidate without skills matches nothing
calculateSkillMatchNoDefault(studentSkills, jobSkills) ==
    IF Len(jobSkills) = 0 THEN Rat(DefaultSkillMatch, 1)
    ELSE Rat(Matches(studentSkills, jobSkills) * 100, Len(jobSkills))

\* function calculateSkillMatch: (matches / jobSkills.length) * 100
calculateSkillMatch(studentSkills, jobSkills) ==
    IF Len(jobSkills) = 0 \/ Len(studentSkills) = 0
      THEN Rat(DefaultSkillMatch, 1)
    ELSE Rat(Matches(studentSkills, jobSkills) * 100, Len(jobSkills))

\* .order("created_at", { ascending: false }).limit(5)
Recent(rows) == SubSeq(rows, 1, IF Len(rows) < RecentLimit THEN Len(rows) ELSE RecentLimit)

\* Number(r.score) || 0
NumberOrZero(score) == IF score = NullScore THEN 0 ELSE score

RECURSIVE Sum(_)
Sum(scores) == IF scores = <<>> THEN 0 ELSE NumberOrZero(Head(scores)) + Sum(Tail(scores))

\* rows.length > 0 ? rows.reduce(...) / rows.length : 0
Average(rows) ==
    LET recent == Recent(rows)
    IN IF Len(recent) > 0 THEN Rat(Sum(recent), Len(recent)) ELSE Rat(0, 1)

\* mock_results of the student, a NULL score counted as 0
avgMockScore == Average(mock_results)

\* interactive_interviews of the student, .not("final_score", "is", null)
avgInterviewScore ==
    Average(SelectSeq(interactive_interviews, LAMBDA score : score # NullScore))

\* (mutant) the skill tags are tested one by one, not as a chain
ReasonsIndependent(jobSkills, skillMatch) ==
    (IF Len(jobSkills) = 0 THEN <<"Open to all candidates">> ELSE <<>>)
    \o (IF RatGt(skillMatch, StrongSkill) THEN <<"Strong skill match">> ELSE <<>>)
    \o (IF RatGt(skillMatch, GoodSkill) THEN <<"Good skill match">> ELSE <<>>)
    \o (IF RatGt(avgMockScore, HighScore) THEN <<"Excellent test performance">> ELSE <<>>)
    \o (IF RatGt(avgInterviewScore, HighScore)
          THEN <<"Strong interview performance">> ELSE <<>>)

\* the reason tags of a posting
Reasons(jobSkills, skillMatch) ==
    (IF Len(jobSkills) = 0 THEN <<"Open to all candidates">>
     ELSE IF RatGt(skillMatch, StrongSkill) THEN <<"Strong skill match">>
     ELSE IF RatGt(skillMatch, GoodSkill) THEN <<"Good skill match">>
     ELSE <<>>)
    \o (IF RatGt(avgMockScore, HighScore) THEN <<"Excellent test performance">> ELSE <<>>)
    \o (IF RatGt(avgInterviewScore, HighScore)
          THEN <<"Strong interview performance">> ELSE <<>>)

\* (skillMatch * 0.5) + (avgMockScore * 0.25) + (avgInterviewScore * 0.25)
MatchScore(skillMatch) ==
    RatAdd(RatAdd(RatMul(skillMatch, Rat(1, 2)), RatMul(avgMockScore, Rat(1, 4))),
           RatMul(avgInterviewScore, Rat(1, 4)))

\* (mutant) the floor is applied to the rounded score
RetainedRounded(matchScore) == MathRound(matchScore) >= MinMatchScore

\* matchScore >= 15
Retained(matchScore) == RatGeq(matchScore, MinMatchScore)

\* (mutant) the stored score is composed from the rounded components
RecommendationFromRounded(job, studentSkills) ==
    LET jobSkills == JobSkills(job)
        skillMatch == calculateSkillMatch(studentSkills, jobSkills)
    IN [job_id |-> job.id, job_source |-> "offcampus",
        match_score |-> MathRound(Rat(2 * MathRound(skillMatch)
                                        + MathRound(avgMockScore)
                                        + MathRound(avgInterviewScore), 4)),
        skill_match |-> MathRound(skillMatch),
        test_performance |-> MathRound(avgMockScore),
        interview_performance |-> MathRound(avgInterviewScore),
        reasons |-> Reasons(jobSkills, skillMatch)]

\* the object pushed for a posting (company_name, role and skills_required
\* are copied from the posting and are left out)
Recommendation(job, studentSkills) ==
    LET jobSkills == JobSkills(job)
        skillMatch == calculateSkillMatch(studentSkills, jobSkills)
    IN [job_id |-> job.id, job_source |-> "offcampus",
        match_score |-> MathRound(MatchScore(skillMatch)),
        skill_match |-> MathRound(skillMatch),
        test_performance |-> MathRound(avgMockScore),
        interview_performance |-> MathRound(avgInterviewScore),
        reasons |-> Reasons(jobSkills, skillMatch)]

\* for (const job of offcampusJobs) { ... if (matchScore >= 15) push }
RECURSIVE Recommendations(_, _)
Recommendations(jobs, studentSkills) ==
    IF jobs = <<>> THEN <<>>
    ELSE (IF Retained(MatchScore(calculateSkillMatch(studentSkills,
                                                     JobSkills(Head(jobs)))))
            THEN <<Recommendation(Head(jobs), studentSkills)>> ELSE <<>>)
         \o Recommendations(Tail(jobs), studentSkills)

\* (mutant) the list is left in the order of the postings
SortByMatchScoreSkipped(recs) == recs

\* recommendations.sort((a, b) => b.match_score - a.match_score): a stable
\* sort, an entry goes behind the entries whose score is not lower
SortByMatchScore(recs) ==
    LET Insert(sorted, x) ==
          LET k == Cardinality({i \in 1..Len(sorted) :
                                  sorted[i].match_score >= x.match_score})
          IN SubSeq(sorted, 1, k) \o <<x>> \o SubSeq(sorted, k + 1, Len(sorted))
        upTo[n \in 0..Len(recs)] ==
          IF n = 0 THEN <<>> ELSE Insert(upTo[n - 1], recs[n])
    IN upTo[Len(recs)]

\* a stored row of job_recommendations
Row(student_id, rec) ==
    [student_id |-> student_id, job_id |-> rec.job_id, job_source |-> rec.job_source,
     match_score |-> rec.match_score, skill_match |-> rec.skill_match,
     test_performance |-> rec.test_performance,
     interview_performance |-> rec.interview_performance, reasons |-> rec.reasons]

\* .from("job_recommendations").delete().eq("student_id", user.id)
DeleteRecommendations(rows, student_id) ==
    SelectSeq(rows, LAMBDA r : r.student_id # student_id)

\* (mutant) the insert replaces the rows the candidate has for the same posting
InsertRecommendationsUpsert(rows, student_id, recs) ==
    SelectSeq(rows, LAMBDA r : ~(r.student_id = student_id
                                  /\ \E i \in 1..Len(recs) : recs[i].job_id = r.job_id))
    \o [i \in 1..Len(recs) |-> Row(student_id, recs[i])]

\* .insert(recommendations.map(rec => ({ student_id: user.id, ... })))
InsertRecommendations(rows, student_id, recs) ==
    rows \o [i \in 1..Len(recs) |-> Row(student_id, recs[i])]

\* recommendations.slice(0, 10)
FirstTen(recs) == SubSeq(recs, 1, IF Len(recs) < 10 THEN Len(recs) ELSE 10)

RecResponse(status, error) ==
    [status |-> status, error |-> error, count |-> -1, recommendations |-> <<>>]
RecSuccess(recs) ==
    [status |-> 200, error |-> Undefined, count |-> Len(recs),
     recommendations |-> FirstTen(recs)]
RecOut(rows, resp, calls) ==
    [rows |-> rows, resp |-> resp, calls |-> calls, failed |-> {}]
RecFailing(call, out) == [out EXCEPT !.failed = @ \cup {call}]

RecRequests == [authorization : {Undefined, "Bearer bad", "Bearer s1"}]

\* supabase.auth.getUser(token): the user of the token, none for a bad token
GetUser(authorization) == IF authorization = "Bearer s1" THEN {"s1"} ELSE {}

\* (mutant) the error of the profile lookup is not thrown
ProfileLoadedAlways == {TRUE}

\* .from("profiles").select(...).eq("id", user.id).single(): whether the row
\* was returned; no row is an error, and the query can fail
ProfileLoaded == {student_profile.found, FALSE}

\* the handler from the computation of the list on: sort, delete, insert;
\* the result of the delete is not looked at, the insert throws on an error
Replace(student_id, recommendations, calls) ==
    LET sorted == SortByMatchScore(recommendations)
        deleted == DeleteRecommendations(job_recommendations, student_id)
        finish(rows, c) ==
          IF Len(sorted) > 0
            THEN {RecFailing("insert job_recommendations",
                             RecOut(rows, RecResponse(500, "insertError"),
                                    c \o <<"insert job_recommendations">>)),
                  RecOut(InsertRecommendations(rows, student_id, sorted),
                         RecSuccess(sorted), c \o <<"insert job_recommendations">>)}
          ELSE {RecOut(rows, RecSuccess(sorted), c)}
        after == calls \o <<"delete job_recommendations">>
    IN finish(deleted, after)
       \cup {RecFailing("delete job_recommendations", out) :
               out \in finish(job_recommendations, after)}

GenerateHandler(req) ==
    LET user == GetUser(req.authorization)
        student_id == CHOOSE u \in user : TRUE
        reads == <<"getUser", "select profiles", "select mock_results",
                   "select interactive_interviews", "select offcampus_jobs">>
    IN
    IF req.authorization = Undefined
      THEN {RecOut(job_recommendations, RecResponse(500, "No authorization header"),
                   <<>>)}
    ELSE IF user = {}
      THEN {RecOut(job_recommendations, RecResponse(500, "Unauthorized"),
                   <<"getUser">>)}
    ELSE UNION {
      IF ~profileLoaded
        THEN {RecFailing("select profiles",
                         RecOut(job_recommendations, RecResponse(500, "profileError"),
                                <<"getUser", "select profiles">>))}
      ELSE Replace(student_id,
                   Recommendations(offcampus_jobs,
                                   StudentSkills(student_profile.resume_skills)),
                   reads)
      : profileLoaded \in ProfileLoaded}

GenerateRecommendations ==
    /\ recLast = RecIdle
    /\ \E req \in RecRequests : \E out \in GenerateHandler(req) :
         /\ Len(out.rows) <= MaxStored
         /\ job_recommendations' = out.rows
         /\ recLast' = [op |-> "generate-recommendations", resp |-> out.resp,
                        calls |-> out.calls, failed |-> out.failed]
    /\ UNCHANGED <<student_profile, mock_results, interactive_interviews,
                   offcampus_jobs>>
    /\ UNCHANGED otpVars
    /\ UNCHANGED auxVars

\* the caller receives the response of generate-recommendations
RecReturn ==
    /\ recLast # RecIdle
    /\ recLast' = RecIdle
    /\ UNCHANGED <<student_profile, mock_results, interactive_interviews,
                   offcampus_jobs, job_recommendations>>
    /\ UNCHANGED otpVars
    /\ UNCHANGED auxVars

(* ----------------------------- parse-resume --------------------------- *)
\* unnamed/part_000, l.1-175: skills extracted from a resume by the AI gateway
MinSkillLength == 2   \* skill.length < 2
MaxSkillLength == 50  \* skill.length > 50

\* the filter callback of the extracted skills
KeepParsedSkill(skill) ==
    /\ skill # NotAString
    /\ skill # <<>>
    /\ ~(Len(skill) < MinSkillLength \/ Len(skill) > MaxSkillLength)
    /\ ~(HasChar(skill, "[") \/ HasChar(skill, "=") \/ HasChar(skill, "{"))

\* skills.filter(...).map(skill => skill.trim()).filter(skill => skill.length > 0)
CleanSkills(skills) ==
    LET kept == SelectSeq(skills, KeepParsedSkill)
        trimmed == [i \in 1..Len(kept) |-> Trim(kept[i])]
    IN SelectSeq(trimmed, LAMBDA skill : Len(skill) > 0)

\* a skill of 51 characters
LongSkill == [i \in 1..(MaxSkillLength + 1) |-> "a"]

\* what the tool call of the AI reply can carry in args.skills
ExtractedSkillLists ==
    { <<>>,
      <<python, react>>,
      <<<<"c">>, SQL>>,
      <<<<" ", "c">>>>,
      <<<<" ", " ">>, react>>,
      <<<<"[", "j", "s">>, <<"a", "=", "b">>, <<"{", "x">>, python>>,
      <<<<"x", "}">>, <<"r", "]">>>>,
      <<NotAString, <<>>, LongSkill, SQL>> }

\* the body { resumeText }, the authorization header, and the reply of the AI
\* gateway: its status and, when ok, the extracted skills
ParseRequests ==
    [resumeText : {Undefined, "resume"},
     authorization : {Undefined, "Bearer bad", "Bearer s1"},
     aiStatus : {200, 402, 429, 500},
     skills : ExtractedSkillLists]

ParseResponse(status, error) == [status |-> status, error |-> error, skills |-> <<>>]
ParseOut(profile, resp, calls) ==
    [profile |-> profile, resp |-> resp, calls |-> calls, failed |-> {}]

ParseResumeHandler(req) ==
    LET skills == CleanSkills(req.skills)
        user == GetUser(req.authorization)
    IN
    IF Falsy(req.resumeText)
      THEN {ParseOut(student_profile, ParseResponse(400, "Resume text is required"), <<>>)}
    ELSE IF req.aiStatus = 429
      THEN {ParseOut(student_profile,
                     ParseResponse(429, "Rate limit exceeded. Please try again later."),
                     <<"ai gateway">>)}
    ELSE IF req.aiStatus = 402
      THEN {ParseOut(student_profile,
                     ParseResponse(402, "Payment required. Please add credits to your workspace."),
                     <<"ai gateway">>)}
    ELSE IF req.aiStatus # 200
      THEN {ParseOut(student_profile, ParseResponse(500, "AI API error"),
                     <<"ai gateway">>)}
    ELSE IF req.authorization = Undefined
      THEN {ParseOut(student_profile, ParseResponse(500, "No authorization header"),
                     <<"ai gateway">>)}
    ELSE IF user = {}
      THEN {ParseOut(student_profile, ParseResponse(500, "Unauthorized"),
                     <<"ai gateway", "getUser">>)}
    ELSE {[ParseOut(student_profile, ParseResponse(500, "updateError"),
                    <<"ai gateway", "getUser", "update profiles">>)
             EXCEPT !.failed = {"update profiles"}],
          ParseOut(IF student_profile.found
                     THEN [student_profile EXCEPT !.resume_skills = skills]
                     ELSE student_profile,
                   [status |-> 200, error |-> Undefined, skills |-> skills],
                   <<"ai gateway", "getUser", "update profiles">>)}

ParseResume ==
    /\ recLast = RecIdle
    /\ \E req \in ParseRequests : \E out \in ParseResumeHandler(req) :
         /\ student_profile' = out.profile
         /\ recLast' = [op |-> "parse-resume", resp |-> out.resp,
                        calls |-> out.calls, failed |-> out.failed]
    /\ UNCHANGED <<mock_results, interactive_interviews, offcampus_jobs,
                   job_recommendations>>
    /\ UNCHANGED otpVars
    /\ UNCHANGED auxVars

(* ----------------------------- environment ---------------------------- *)
\* the caller receives the response; the next request can be served
Return ==
    /\ last # Idle
    /\ last' = Idle
    /\ UNCHANGED <<otp_verifications, users, user_roles, profiles,
                   pre_registered_students, pre_registered_teachers, now, nextId>>
    /\ UNCHANGED recVars
    /\ UNCHANGED auxVars

\* wall-clock time passes between requests
Tick ==
    /\ last = Idle
    /\ now + TickMinutes <= MaxTime
    /\ now' = now + TickMinutes
    /\ UNCHANGED <<otp_verifications, users, user_roles, profiles,
                   pre_registered_students, pre_registered_teachers, nextId, last>>
    /\ UNCHANGED recVars
    /\ UNCHANGED auxVars

\* the TPO has pre-registered a@x as a student and nobody as a teacher;
\* b@x is on neither list; nobody has signed up yet
OtpInit ==
    /\ otp_verifications = {}
    /\ users = {}
    /\ user_roles = {}
    /\ profiles = {}
    /\ pre_registered_students = {"a@x"}
    /\ pre_registered_teachers = {}
    /\ now = 0
    /\ nextId = 1
    /\ last = Idle

\* no candidate uses the recommender while the codes are exercised
RecQuiet ==
    /\ student_profile = [found |-> FALSE, resume_skills |-> <<>>]
    /\ mock_results = <<>>
    /\ interactive_interviews = <<>>
    /\ offcampus_jobs = <<>>
    /\ job_recommendations = <<>>
    /\ recLast = RecIdle

\* nobody applies to a job, no handler run is in flight, no notification is sent
AuxQuiet ==
    /\ applications = <<>>
    /\ procs = <<>>
    /\ outbox = <<>>

Init == OtpInit /\ RecQuiet /\ AuxQuiet

Next == SendOtp \/ VerifyOtp \/ Return \/ Tick

Spec == Init /\ [][Next]_vars

(* --------------------- the recommender on its own --------------------- *)
ResumeSkillLists ==
    { <<>>,
      <<python, react>>,
      <<<<"Q", "L">>>>,
      <<<<" ", " ">>>>,
      <<<<"c">>, <<"[", "j", "s">>, <<"a", "=", "b">>, <<"{", "x">>, <<>>, NotAString>>,
      <<<<"x", "}">>, <<"r", "]">>, <<" ", "s", "q", "l", " ">>>> }
JobSkillLists == { <<>>, <<Python, SQL>>, <<SQL>>, <<Python, SQL, react>> }
MockHistories ==
    { <<>>, <<58>>, <<60>>, <<70>>, <<80>>, <<71, 70>>, <<NullScore, 100>>,
      <<100, 100, 100, 100, 100, 0>> }
InterviewHistories ==
    { <<>>, <<60>>, <<NullScore, 80>>, <<100, 100, 100, 100, 100, NullScore, 0>> }

\* the postings: up to MaxJobs rows, ids in the order of the select
Postings ==
    UNION {{[i \in 1..n |-> [id |-> i, skills_required |-> f[i]]] :
              f \in [1..n -> JobSkillLists]} : n \in 0..MaxJobs}

\* rows stored by earlier generation requests: one of another student, and
\* one of the candidate for a posting that has been withdrawn since
OtherRow ==
    [student_id |-> "s2", job_id |-> 1, job_source |-> "offcampus",
     match_score |-> 25, skill_match |-> 50, test_performance |-> 0,
     interview_performance |-> 0, reasons |-> <<"Open to all candidates">>]
StaleRow ==
    [student_id |-> "s1", job_id |-> 0, job_source |-> "offcampus",
     match_score |-> 40, skill_match |-> 50, test_performance |-> 60,
     interview_performance |-> 0, reasons |-> <<"Good skill match">>]

RecInit ==
    /\ OtpInit
    /\ AuxQuiet
    /\ student_profile \in
         {[found |-> FALSE, resume_skills |-> <<>>]}
         \cup {[found |-> TRUE, resume_skills |-> l] : l \in ResumeSkillLists}
    /\ mock_results \in MockHistories
    /\ interactive_interviews \in InterviewHistories
    /\ offcampus_jobs \in Postings
    /\ job_recommendations \in {<<OtherRow>>, <<StaleRow, OtherRow>>}
    /\ recLast = RecIdle

RecNext == GenerateRecommendations \/ RecReturn

RecSpec == RecInit /\ [][RecNext]_vars

(* ------------------- from the resume to the matching ------------------ *)
\* a candidate with a profile and no parsed resume yet, two postings
ResumeInit ==
    /\ OtpInit
    /\ AuxQuiet
    /\ student_profile = [found |-> TRUE, resume_skills |-> <<>>]
    /\ mock_results = <<>>
    /\ interactive_interviews = <<>>
    /\ offcampus_jobs = <<[id |-> 1, skills_required |-> <<Python, SQL>>],
                          [id |-> 2, skills_required |-> <<>>]>>
    /\ job_recommendations = <<OtherRow>>
    /\ recLast = RecIdle

ResumeNext == ParseResume \/ GenerateRecommendations \/ RecReturn

ResumeSpec == ResumeInit /\ [][ResumeNext]_vars

(* ------------------------------- claims ------------------------------- *)
\* A claim about a request is stated over the outcomes the handler can have
\* in a state where it can be served (last = Idle), for every request.

\* the rows of otp_verifications that a run turned from unverified to verified
TurnedVerified(out) ==
    {r \in otp_verifications :
       ~r.verified /\ \E s \in out.db.otps : s.id = r.id /\ s.verified}

\* the request is a signup whose code is the code of the valid row otpRecord
ValidSignup(req, otpRecord) ==
    /\ Default(req.purpose, "signup") = "signup"
    /\ req.otp # NoOtp
    /\ Trim(req.otp) = Trim(otpRecord.otp)
    /\ otpRecord.expires_at >= now
    /\ otpRecord.attempts < MaxAttempts

\* C1 (as claimed): a signup verify-otp request with the code of the latest
\* unverified row, unexpired and with attempts < 5, for an email without an
\* account, in a run where no call fails, turns exactly one code row verified
\* and creates exactly one account and exactly one role row.
C1_SignupCreatesAccountAndRole ==
    last = Idle =>
      \A req \in VerifyRequests :
        \A otpRecord \in LatestUnverified(otp_verifications, req.email) :
          ValidSignup(req, otpRecord) /\ ~UserExists(users, req.email) =>
            \A out \in VerifyOtpHandler(req) :
              out.failed = {} =>
                /\ Cardinality(TurnedVerified(out)) = 1
                /\ Cardinality(out.db.users \ users) = 1
                /\ Cardinality(out.db.roles \ user_roles) = 1

\* C2: a verify-otp request whose latest unverified row has attempts >= 5 is
\* rejected whatever code it submits, and changes nothing: no account, no
\* password change, no row marked verified.
C2_ExhaustedRowAlwaysRejects ==
    last = Idle =>
      \A req \in VerifyRequests :
        \A otpRecord \in LatestUnverified(otp_verifications, req.email) :
          otpRecord.attempts >= MaxAttempts =>
            \A out \in VerifyOtpHandler(req) :
              /\ out.resp.status # 200
              /\ out.resp.tempPassword = Undefined
              /\ out.db = Db

\* a rejected verification of a row that has used up its attempts
C2_Witness ==
    /\ last.op = "verify-otp"
    /\ last.resp.error = "Too many failed attempts. Please request a new OTP"
    /\ \E r \in otp_verifications : ~r.verified /\ r.attempts = MaxAttempts

C4_ExpiredRowReportsExpiry ==
    last = Idle =>
      \A req \in VerifyRequests :
        \A otpRecord \in LatestUnverified(otp_verifications, req.email) :
          req.otp # NoOtp /\ otpRecord.expires_at < now =>
            \A out \in VerifyOtpHandler(req) :
              /\ out.resp.status # 200
              /\ out.resp.remaining = -1
              /\ out.resp.error # "Too many failed attempts. Please request a new OTP."
              /\ out.failed = {} =>
                   out.resp.status = 400 /\ out.resp.error = "OTP has expired"
              /\ out.db = Db

\* an expired row was presented and the expiry error returned
C4_Witness ==
    /\ last.op = "verify-otp"
    /\ last.resp.error = "OTP has expired"
    /\ \E r \in otp_verifications : ~r.verified /\ r.expires_at < now

\* the request carries a code that differs from the code of the valid row
ValidMismatch(req, otpRecord) ==
    /\ req.otp # NoOtp
    /\ Trim(req.otp) # Trim(otpRecord.otp)
    /\ otpRecord.expires_at >= now
    /\ otpRecord.attempts < MaxAttempts

\* C5 (as claimed): a wrong code on an unexpired row with attempts = a < 5
\* sets attempts to a + 1, is rejected, and the response reports
\* 5 - (a + 1) attempts remaining, for a = 0..4.
C5_MismatchReportsRemaining ==
    last = Idle =>
      \A req \in VerifyRequests :
        \A otpRecord \in LatestUnverified(otp_verifications, req.email) :
          ValidMismatch(req, otpRecord) =>
            \A out \in VerifyOtpHandler(req) :
              out.failed = {} =>
                /\ out.resp.status = 400
                /\ out.db.otps = (otp_verifications \ {otpRecord})
                     \cup {[otpRecord EXCEPT !.attempts = otpRecord.attempts + 1]}
                /\ out.resp.remaining = MaxAttempts - (otpRecord.attempts + 1)

\* C5 (amended): a wrong code on an unexpired row with attempts = a < 5 sets
\* attempts to a + 1, leaves every other row and table alone and is rejected
\* with status 400; the response reports 5 - (a + 1) attempts remaining for
\* a = 0..3, and for a = 4 it reports no number but "Too many failed attempts".
C5_MismatchCountsAttempt ==
    last = Idle =>
      \A req \in VerifyRequests :
        \A otpRecord \in LatestUnverified(otp_verifications, req.email) :
          ValidMismatch(req, otpRecord) =>
            \A out \in VerifyOtpHandler(req) :
              out.failed = {} =>
                /\ out.resp.status = 400
                /\ out.resp.tempPassword = Undefined
                /\ out.db = [Db EXCEPT !.otps = (@ \ {otpRecord})
                       \cup {[otpRecord EXCEPT !.attempts = otpRecord.attempts + 1]}]
                /\ IF otpRecord.attempts + 1 < MaxAttempts
                     THEN /\ out.resp.remaining = MaxAttempts - (otpRecord.attempts + 1)
                          /\ out.resp.error = "Invalid OTP. N attempts remaining"
                     ELSE /\ out.resp.remaining = -1
                          /\ out.resp.error =
                               "Too many failed attempts. Please request a new OTP."

\* the fifth wrong code on a row: no count is quoted, attempts is 5
C5_Witness ==
    /\ last.op = "verify-otp"
    /\ last.resp.error = "Too many failed attempts. Please request a new OTP."
    /\ last.resp.remaining = -1
    /\ \E r \in otp_verifications : ~r.verified /\ r.attempts = MaxAttempts

\* C6: a signup send-otp request for an email that is not on the allow-list of
\* its role (teachers' list for role teacher, students' list for any other role
\* or none) is refused with status 403 and code EMAIL_NOT_PREREGISTERED; no
\* code row is deleted or inserted and no mail is sent.
C6_UnregisteredSignupRefused ==
    last = Idle =>
      \A req \in SendRequests :
        ( /\ req.email # Undefined
          /\ req.purpose \in {Undefined, "signup"}
          /\ req.email \notin (IF req.role = "teacher" THEN pre_registered_teachers
                                                     ELSE pre_registered_students) )
        => \A out \in SendOtpHandler(req) :
             /\ out.resp.status = 403
             /\ out.resp.code = "EMAIL_NOT_PREREGISTERED"
             /\ out.db = Db
             /\ out.mail = <<>>

\* a teacher signup was refused while a code row was in the table
C6_Witness ==
    /\ last.op = "send-otp"
    /\ last.resp.status = 403
    /\ last.resp.code = "EMAIL_NOT_PREREGISTERED"
    /\ last.calls = <<"select pre_registered_teachers">>
    /\ \E r \in otp_verifications : ~r.verified

\* C7: a reset send-otp request for an email that owns no account is refused
\* with status 404, no code row is deleted or inserted and no mail is sent; so
\* a reset code is issued only to an email that owns an account.
C7_ResetNeedsAccount ==
    last = Idle =>
      \A req \in SendRequests :
        \A out \in SendOtpHandler(req) :
          req.email # Undefined /\ req.purpose = "reset" =>
            /\ ~UserExists(users, req.email) =>
                 out.resp.status = 404 /\ out.db = Db /\ out.mail = <<>>
            /\ out.db.otps # otp_verifications => UserExists(users, req.email)

\* a reset was refused for an email that has a pending code but no account
C7_Witness ==
    /\ last.op = "send-otp"
    /\ last.resp.status = 404
    /\ last.calls = <<"select profiles">>
    /\ users = {}
    /\ \E r \in otp_verifications : ~r.verified

\* C8: a send-otp request without email, and a verify-otp request without
\* email or without code, is rejected with status 400 without a call to the
\* datastore, and the tables are unchanged.
C8_MissingFieldsRejectedFirst ==
    last = Idle =>
      /\ \A req \in SendRequests :
           req.email = Undefined =>
             \A out \in SendOtpHandler(req) :
               /\ out.resp.status = 400
               /\ out.calls = <<>>
               /\ out.db = Db
               /\ out.mail = <<>>
      /\ \A req \in VerifyRequests :
           req.email = Undefined \/ req.otp = NoOtp =>
             \A out \in VerifyOtpHandler(req) :
               /\ out.resp.status = 400
               /\ out.calls = <<>>
               /\ out.db = Db

\* a request with a missing field was rejected while a code row was pending
C8_Witness ==
    /\ last.op = "verify-otp"
    /\ last.resp.status = 400
    /\ last.resp.error = "Email and OTP are required"
    /\ last.calls = <<>>
    /\ \E r \in otp_verifications : ~r.verified

\* C9: when createUser (signup) or updateUserById (reset) fails in a verify-otp
\* request with a correct, valid code, the request is rejected and nothing is
\* changed: the code row stays unverified with the same attempts, so the same
\* request can still succeed.
C9_DownstreamFailureKeepsCode ==
    last = Idle =>
      \A req \in VerifyRequests :
        \A out \in VerifyOtpHandler(req) :
          out.failed \in {{"createUser"}, {"updateUserById"}} =>
            /\ out.resp.status = 500
            /\ out.resp.tempPassword = Undefined
            /\ out.db = Db
            /\ \E ok \in VerifyOtpHandler(req) :
                 /\ ok.resp.status = 200
                 /\ ok.failed = {}
                 /\ TurnedVerified(ok) # {}

\* the password update of a reset failed and the code row is still pending
C9_Witness ==
    /\ last.op = "verify-otp"
    /\ last.failed = {"updateUserById"}
    /\ last.resp.status = 500
    /\ \E r \in otp_verifications : ~r.verified /\ r.expires_at >= now

\* C10 (as claimed): a signup verify-otp request with a correct, valid code for
\* an email that already owns an account is refused with an error and creates
\* no account and no role row.
C10_ExistingAccountSignupRefused ==
    last = Idle =>
      \A req \in VerifyRequests :
        \A otpRecord \in LatestUnverified(otp_verifications, req.email) :
          ValidSignup(req, otpRecord) /\ UserExists(users, req.email) =>
            \A out \in VerifyOtpHandler(req) :
              out.failed = {} =>
                /\ out.resp.status # 200
                /\ out.db.users = users
                /\ out.db.roles = user_roles

\* the request is a reset whose code is the code of the valid row otpRecord
ValidReset(req, otpRecord) ==
    /\ req.purpose = "reset"
    /\ req.otp # NoOtp
    /\ Trim(req.otp) = Trim(otpRecord.otp)
    /\ otpRecord.expires_at >= now
    /\ otpRecord.attempts < MaxAttempts

\* C11 (as claimed): a verify-otp request with purpose reset that returns
\* success has overwritten the password of the account of the email with the
\* generated password it returns, has set temp_password_used of that account
\* to false, and has marked the code row verified.
C11_ResetOverwritesPassword ==
    last = Idle =>
      \A req \in VerifyRequests :
        \A otpRecord \in LatestUnverified(otp_verifications, req.email) :
          ValidReset(req, otpRecord) =>
            \A out \in VerifyOtpHandler(req) :
              out.resp.status = 200 =>
                /\ \E u \in out.db.users :
                     /\ u.email = req.email
                     /\ u.password = out.resp.tempPassword
                     /\ \E p \in out.db.profiles :
                          p.id = u.id /\ ~p.temp_password_used
                /\ TurnedVerified(out) = {otpRecord}

\* C12: on the signup path, when the insert of the role row fails after the
\* account was created, the request still returns success with the generated
\* password, the account and its profile exist, no role row is stored for it,
\* and the code row is marked verified.
C12_RoleFailureKeepsAccount ==
    last = Idle =>
      \A req \in VerifyRequests :
        \A otpRecord \in LatestUnverified(otp_verifications, req.email) :
          \A out \in VerifyOtpHandler(req) :
            out.failed = {"insert user_roles"} =>
              /\ out.resp.status = 200
              /\ out.resp.tempPassword \in Passwords
              /\ ~UserExists(users, req.email)
              /\ \E u \in out.db.users :
                   /\ u.email = req.email
                   /\ u.password = out.resp.tempPassword
                   /\ \E p \in out.db.profiles : p.id = u.id
                   /\ ~\E r \in out.db.roles : r.user_id = u.id
              /\ out.db.roles = user_roles
              /\ TurnedVerified(out) = {otpRecord}

\* a signup succeeded although its role insert failed: the account has no role
C12_Witness ==
    /\ last.op = "verify-otp"
    /\ last.failed = {"insert user_roles"}
    /\ last.resp.status = 200
    /\ \E u \in users : u.email = "a@x" /\ ~\E r \in user_roles : r.user_id = u.id
    /\ \E r \in otp_verifications : r.email = "a@x" /\ r.verified

(* ----------------------- claims on the recommender -------------------- *)
\* the candidate's skills as the matcher sees them
CleanedSkills == StudentSkills(student_profile.resume_skills)

\* the unrounded composite score of a posting
RawScore(job) == MatchScore(calculateSkillMatch(CleanedSkills, JobSkills(job)))

\* the rows of the candidate, in the order of their insertion
OwnRows(rows) == SelectSeq(rows, LAMBDA r : r.student_id = "s1")

\* the rows a successful run inserted: the last `count` rows of the table
Inserted(out) ==
    SubSeq(out.rows, Len(out.rows) - out.resp.count + 1, Len(out.rows))

\* C13: every recommendation a generation request persists has match_score
\* >= 15, and the persisted postings are exactly the postings that remain when
\* every posting whose computed (unrounded) score is below 15 is removed.
C13_FloorRetainsExactly ==
    recLast = RecIdle =>
      \A req \in RecRequests :
        \A out \in GenerateHandler(req) :
          out.resp.status = 200 =>
            LET stored == Inserted(out)
                kept == {i \in DOMAIN offcampus_jobs :
                           ~(RawScore(offcampus_jobs[i]).n
                               < MinMatchScore * RawScore(offcampus_jobs[i]).d)}
            IN /\ \A k \in DOMAIN stored : stored[k].match_score >= MinMatchScore
               /\ \A k \in DOMAIN stored : stored[k].student_id = "s1"
               /\ {stored[k].job_id : k \in DOMAIN stored}
                    = {offcampus_jobs[i].id : i \in kept}
               /\ Len(stored) = Cardinality(kept)
               /\ out.resp.count = Cardinality(kept)

\* a posting whose score of 14.5 would round to 15 was dropped while another
\* posting of the same request was stored
C13_Witness ==
    /\ recLast # RecIdle
    /\ recLast.resp.status = 200
    /\ recLast.failed = {}
    /\ \E i \in DOMAIN offcampus_jobs :
         /\ ~Retained(RawScore(offcampus_jobs[i]))
         /\ MathRound(RawScore(offcampus_jobs[i])) = MinMatchScore
         /\ ~\E k \in DOMAIN job_recommendations :
               /\ job_recommendations[k].student_id = "s1"
               /\ job_recommendations[k].job_id = offcampus_jobs[i].id
    /\ \E k \in DOMAIN job_recommendations :
         job_recommendations[k].student_id = "s1"

\* C14: calculateSkillMatch returns exactly 50 when the posting requires no
\* skill, whatever the candidate's skills, and when the candidate's cleaned
\* skill list is empty, whatever the posting requires; such a posting is
\* stored with skill_match 50.
C14_SkillMatchDefaultsTo50 ==
    recLast = RecIdle =>
      \A i \in DOMAIN offcampus_jobs :
        LET jobSkills == JobSkills(offcampus_jobs[i])
        IN (Len(jobSkills) = 0 \/ Len(CleanedSkills) = 0) =>
             /\ calculateSkillMatch(CleanedSkills, jobSkills).n
                  = 50 * calculateSkillMatch(CleanedSkills, jobSkills).d
             /\ \A req \in RecRequests :
                  \A out \in GenerateHandler(req) :
                    out.resp.status = 200 =>
                      \E k \in DOMAIN out.rows :
                        /\ out.rows[k].student_id = "s1"
                        /\ out.rows[k].job_id = offcampus_jobs[i].id
                        /\ out.rows[k].skill_match = 50

\* a candidate whose listed skills are all discarded by the cleaning was
\* scored 50 against a posting that requires skills
C14_Witness ==
    /\ recLast # RecIdle
    /\ recLast.resp.status = 200
    /\ student_profile.resume_skills # <<>>
    /\ CleanedSkills = <<>>
    /\ \E i \in DOMAIN offcampus_jobs :
         /\ offcampus_jobs[i].skills_required # <<>>
         /\ \E k \in DOMAIN job_recommendations :
              /\ job_recommendations[k].student_id = "s1"
              /\ job_recommendations[k].job_id = offcampus_jobs[i].id
              /\ job_recommendations[k].skill_match = 50

\* a occurs in b when letter case is ignored
SubstringIgnoringCase(a, b) ==
    \E i \in 1..(Len(b) + 1) : \E j \in (i - 1)..Len(b) :
      ToLowerCase(SubSeq(b, i, j)) = ToLowerCase(a)

\* the required skills of a posting that the candidate's skills match
MatchedRequired(job) ==
    {i \in DOMAIN job.skills_required :
       \E k \in DOMAIN CleanedSkills :
         \/ SubstringIgnoringCase(job.skills_required[i], CleanedSkills[k])
         \/ SubstringIgnoringCase(CleanedSkills[k], job.skills_required[i])}

\* C15: when the posting requires skills and the candidate's cleaned skill
\* list is not empty, skill_component = matched / required x 100, where a
\* required skill is matched iff, letter case ignored, it occurs in a candidate
\* skill or a candidate skill occurs in it; the stored skill_match is that
\* value rounded.
C15_SkillMatchIsMatchedShare ==
    recLast = RecIdle =>
      \A i \in DOMAIN offcampus_jobs :
        LET job == offcampus_jobs[i]
            skillMatch == calculateSkillMatch(CleanedSkills, JobSkills(job))
            matched == Cardinality(MatchedRequired(job))
            required == Len(job.skills_required)
        IN (required > 0 /\ Len(CleanedSkills) > 0) =>
             /\ skillMatch.n * required = 100 * matched * skillMatch.d
             /\ \A req \in RecRequests :
                  \A out \in GenerateHandler(req) :
                    \A k \in DOMAIN out.resp.recommendations :
                      out.resp.recommendations[k].job_id = job.id =>
                        LET stored == out.resp.recommendations[k].skill_match
                        IN /\ (2 * stored - 1) * required <= 200 * matched
                           /\ 200 * matched < (2 * stored + 1) * required

\* candidate ["python", "react"] against required ["Python", "SQL"] was
\* stored with skill_match 50
C15_Witness ==
    /\ recLast # RecIdle
    /\ recLast.resp.status = 200
    /\ student_profile.resume_skills = <<python, react>>
    /\ \E i \in DOMAIN offcampus_jobs :
         /\ offcampus_jobs[i].skills_required = <<Python, SQL>>
         /\ \E k \in DOMAIN job_recommendations :
              /\ job_recommendations[k].student_id = "s1"
              /\ job_recommendations[k].job_id = offcampus_jobs[i].id
              /\ job_recommendations[k].skill_match = 50

\* the sum of the first k scores, a NULL score counted as 0
SumOfFirst(rows, k) ==
    LET f[j \in 0..k] == IF j = 0 THEN 0
                         ELSE f[j - 1] + (IF rows[j] = NullScore THEN 0 ELSE rows[j])
    IN f[k]

\* z is the integer nearest to n / d (d > 0), a half rounded up
Nearest(z, n, d) == (2 * z - 1) * d <= 2 * n /\ 2 * n < (2 * z + 1) * d

\* C16: every recommendation of a generation request has match_score =
\* round(0.5 x skill_component + 0.25 x assessment_average + 0.25 x
\* interview_average), and skill_match, test_performance and
\* interview_performance are the three components rounded; each average is
\* taken over the (at most) 5 most recent scores and is 0 when there is none.
C16_CompositeScoreRounded ==
    recLast = RecIdle =>
      LET scored == SelectSeq(interactive_interviews, LAMBDA x : x # NullScore)
          m == IF Len(mock_results) < 5 THEN Len(mock_results) ELSE 5
          v == IF Len(scored) < 5 THEN Len(scored) ELSE 5
          a == avgMockScore
          b == avgInterviewScore
      IN /\ IF m = 0 THEN a.n = 0 ELSE a.n * m = SumOfFirst(mock_results, m) * a.d
         /\ IF v = 0 THEN b.n = 0 ELSE b.n * v = SumOfFirst(scored, v) * b.d
         /\ \A req \in RecRequests :
              \A out \in GenerateHandler(req) :
                \A k \in DOMAIN out.resp.recommendations :
                  LET rec == out.resp.recommendations[k]
                      job == CHOOSE j \in {offcampus_jobs[i] : i \in DOMAIN offcampus_jobs} :
                               j.id = rec.job_id
                      s == calculateSkillMatch(CleanedSkills, JobSkills(job))
                  IN /\ Nearest(rec.match_score,
                                2 * s.n * a.d * b.d + a.n * s.d * b.d + b.n * s.d * a.d,
                                4 * s.d * a.d * b.d)
                     /\ Nearest(rec.skill_match, s.n, s.d)
                     /\ Nearest(rec.test_performance, a.n, a.d)
                     /\ Nearest(rec.interview_performance, b.n, b.d)
                     /\ \E x \in DOMAIN out.rows : out.rows[x] = Row("s1", rec)

\* skill 100, assessment 80 and interview 60 were stored with match_score 85
C16_Witness ==
    /\ recLast # RecIdle
    /\ recLast.resp.status = 200
    /\ \E k \in DOMAIN job_recommendations :
         /\ job_recommendations[k].student_id = "s1"
         /\ job_recommendations[k].skill_match = 100
         /\ job_recommendations[k].test_performance = 80
         /\ job_recommendations[k].interview_performance = 60
         /\ job_recommendations[k].match_score = 85

\* the tag is one of the reasons of the recommendation
HasReason(rec, tag) == \E x \in DOMAIN rec.reasons : rec.reasons[x] = tag

\* the posting of a recommendation
PostingOf(rec) ==
    CHOOSE j \in {offcampus_jobs[i] : i \in DOMAIN offcampus_jobs} : j.id = rec.job_id

\* C17 (as claimed): each tag is attached exactly when its own condition
\* holds: 'Open to all candidates' iff no skill is required, 'Strong skill
\* match' iff skill_component > 70, 'Good skill match' iff skill_component >
\* 40, 'Excellent test performance' iff assessment_average > 70, 'Strong
\* interview performance' iff interview_average > 70.
C17_EachTagOnItsOwnCondition ==
    recLast = RecIdle =>
      \A req \in RecRequests :
        \A out \in GenerateHandler(req) :
          \A k \in DOMAIN out.resp.recommendations :
            LET rec == out.resp.recommendations[k]
                job == PostingOf(rec)
                s == calculateSkillMatch(CleanedSkills, JobSkills(job))
            IN /\ HasReason(rec, "Open to all candidates")
                    <=> Len(job.skills_required) = 0
               /\ HasReason(rec, "Strong skill match") <=> s.n > 70 * s.d
               /\ HasReason(rec, "Good skill match") <=> s.n > 40 * s.d
               /\ HasReason(rec, "Excellent test performance")
                    <=> avgMockScore.n > 70 * avgMockScore.d
               /\ HasReason(rec, "Strong interview performance")
                    <=> avgInterviewScore.n > 70 * avgInterviewScore.d

\* C17 (amended): 'Open to all candidates' iff no skill is required; 'Strong
\* skill match' iff a skill is required and skill_component > 70; 'Good skill
\* match' iff a skill is required and 40 < skill_component <= 70; so at most
\* one of these three is attached. 'Excellent test performance' iff
\* assessment_average > 70 and 'Strong interview performance' iff
\* interview_average > 70, each whatever the other tags.
C17_SkillTagsExclusive ==
    recLast = RecIdle =>
      \A req \in RecRequests :
        \A out \in GenerateHandler(req) :
          \A k \in DOMAIN out.resp.recommendations :
            LET rec == out.resp.recommendations[k]
                job == PostingOf(rec)
                s == calculateSkillMatch(CleanedSkills, JobSkills(job))
                required == Len(job.skills_required) > 0
            IN /\ HasReason(rec, "Open to all candidates") <=> ~required
               /\ HasReason(rec, "Strong skill match")
                    <=> (required /\ s.n > 70 * s.d)
               /\ HasReason(rec, "Good skill match")
                    <=> (required /\ s.n > 40 * s.d /\ s.n <= 70 * s.d)
               /\ Cardinality({x \in DOMAIN rec.reasons :
                                 rec.reasons[x] \in {"Open to all candidates",
                                                     "Strong skill match",
                                                     "Good skill match"}}) <= 1
               /\ HasReason(rec, "Excellent test performance")
                    <=> avgMockScore.n > 70 * avgMockScore.d
               /\ HasReason(rec, "Strong interview performance")
                    <=> avgInterviewScore.n > 70 * avgInterviewScore.d
               /\ \A x, y \in DOMAIN rec.reasons :
                    rec.reasons[x] = rec.reasons[y] => x = y

\* a full skill match was stored as 'Strong skill match' without 'Good skill
\* match', together with both performance tags
C17_Witness ==
    /\ recLast # RecIdle
    /\ recLast.resp.status = 200
    /\ \E k \in DOMAIN job_recommendations :
         /\ job_recommendations[k].student_id = "s1"
         /\ job_recommendations[k].skill_match = 100
         /\ job_recommendations[k].reasons
              = <<"Strong skill match", "Excellent test performance",
                  "Strong interview performance">>

\* the entries of the list are in descending order of match_score
Descending(recs) ==
    \A k \in 1..(Len(recs) - 1) : recs[k].match_score >= recs[k + 1].match_score

\* C18: the list a generation request returns, and the rows it inserts in
\* their order of insertion, are sorted by match_score descending.
C18_ListSortedDescending ==
    recLast = RecIdle =>
      \A req \in RecRequests :
        \A out \in GenerateHandler(req) :
          /\ Descending(out.resp.recommendations)
          /\ out.resp.status = 200 =>
               /\ Descending(Inserted(out))
               /\ \A k \in DOMAIN Inserted(out) :
                    Inserted(out)[k] = Row("s1", out.resp.recommendations[k])

\* two postings were stored in the reverse of their order in offcampus_jobs
C18_Witness ==
    /\ recLast # RecIdle
    /\ recLast.resp.status = 200
    /\ recLast.failed = {}
    /\ LET stored == OwnRows(job_recommendations)
       IN /\ Len(stored) = 2
          /\ stored[1].job_id = offcampus_jobs[2].id
          /\ stored[2].job_id = offcampus_jobs[1].id
          /\ stored[1].match_score > stored[2].match_score

\* the rows a generation request computes from the present skills, scores and
\* postings
FreshRows ==
    LET recs == SortByMatchScore(Recommendations(offcampus_jobs, CleanedSkills))
    IN [i \in 1..Len(recs) |-> Row("s1", recs[i])]

\* C19 (as claimed): when a generation request has returned success, with
\* requests served one at a time, the stored rows of the candidate are exactly
\* the freshly computed ones (every earlier row of the candidate is gone), also
\* when generation is run again on unchanged skills, scores and postings; the
\* rows of other candidates are as they were.
C19_StoredRowsAreFreshRows ==
    (recLast # RecIdle /\ recLast.resp.status = 200) =>
      /\ OwnRows(job_recommendations) = FreshRows
      /\ SelectSeq(job_recommendations, LAMBDA r : r.student_id # "s1") = <<OtherRow>>

\* C20: when the profile of the candidate cannot be loaded (no row, or the
\* query fails) the request returns status 500 and no recommendation row is
\* deleted or inserted.
C20_MissingProfileTouchesNothing ==
    recLast = RecIdle =>
      \A req \in RecRequests :
        \A out \in GenerateHandler(req) :
          ("select profiles" \in out.failed
             \/ (req.authorization = "Bearer s1" /\ ~student_profile.found)) =>
            /\ out.resp.status = 500
            /\ out.resp.recommendations = <<>>
            /\ out.rows = job_recommendations
            /\ \A x \in DOMAIN out.calls :
                 out.calls[x] \notin {"delete job_recommendations",
                                      "insert job_recommendations"}

\* a candidate without a profile row was refused and the row stored for the
\* candidate earlier is still there
C20_Witness ==
    /\ recLast # RecIdle
    /\ recLast.failed = {"select profiles"}
    /\ recLast.resp.status = 500
    /\ ~student_profile.found
    /\ \E k \in DOMAIN job_recommendations : job_recommendations[k] = StaleRow

\* C21 (as claimed): a generation request in which the delete of the old rows
\* or the bulk insert of the new rows fails returns an error and not a success
\* response.
C21_DeleteOrInsertFailureIsFatal ==
    recLast = RecIdle =>
      \A req \in RecRequests :
        \A out \in GenerateHandler(req) :
          (out.failed \cap {"delete job_recommendations",
                            "insert job_recommendations"} # {}) =>
            /\ out.resp.status = 500
            /\ out.resp.recommendations = <<>>

\* the skill has at least 2 characters and none of { } [ ] =
WellFormedSkill(skill) ==
    /\ skill # NotAString
    /\ Len(skill) >= 2
    /\ \A i \in DOMAIN skill : skill[i] \notin {"{", "}", "[", "]", "="}

\* C22 (as claimed): a skill that contains one of { } [ ] = or has fewer than
\* 2 characters is neither in the cleaned list that resume extraction returns
\* and stores, nor in the candidate skill set the matcher uses.
C22_MalformedSkillsExcluded ==
    /\ recLast = RecIdle =>
         \A req \in ParseRequests :
           \A out \in ParseResumeHandler(req) :
             /\ \A k \in DOMAIN out.resp.skills : WellFormedSkill(out.resp.skills[k])
             /\ \A k \in DOMAIN out.profile.resume_skills :
                  WellFormedSkill(out.profile.resume_skills[k])
    /\ \A k \in DOMAIN CleanedSkills : WellFormedSkill(CleanedSkills[k])

(* --------------------------- applying to a job ------------------------ *)
\* components/TPOStudentUpload.tsx, handleApply: the browser tabs of the
\* students run it step by step, against the table public.applications
Sessions == {"tab1", "tab2", "tab3"}
StudentOf == [tab1 |-> "s1", tab2 |-> "s1", tab3 |-> "s2"]
ApplyJobs == {"job1", "job2"}

SessionIdle == [pc |-> "idle"]

\* .select("id").eq("job_id", jobId).eq("student_id", user.id).single()
Existing(rows, job_id, student_id) ==
    \E k \in DOMAIN rows : rows[k].job_id = job_id /\ rows[k].student_id = student_id

\* (mutant) the table has no UNIQUE(job_id, student_id)
UniqueViolationNever(rows, job_id, student_id) == FALSE

\* UNIQUE(job_id, student_id) of the table: the insert is refused
UniqueViolation(rows, job_id, student_id) ==
    \E k \in DOMAIN rows : rows[k].job_id = job_id /\ rows[k].student_id = student_id

\* setApplying(jobId): the student clicks Apply on a job
ApplyClick(t) ==
    /\ procs[t] = SessionIdle
    /\ \E job \in ApplyJobs :
         procs' = [procs EXCEPT ![t] = [pc |-> "check", job |-> job]]
    /\ UNCHANGED <<applications, otpVars, recVars, outbox>>

\* the already-applied check
ApplyCheck(t) ==
    /\ procs[t].pc = "check"
    /\ procs' = [procs EXCEPT ![t] =
         IF Existing(applications, procs[t].job, StudentOf[t])
           THEN [pc |-> "done", job |-> procs[t].job, existing |-> TRUE,
                 toast |-> "Already Applied"]
           ELSE [pc |-> "insert", job |-> procs[t].job, existing |-> FALSE]]
    /\ UNCHANGED <<applications, otpVars, recVars, outbox>>

\* .insert({ job_id, student_id, status: 'pending' }); if (error) throw error
ApplyInsert(t) ==
    /\ procs[t].pc = "insert"
    /\ \E error \in {UniqueViolation(applications, procs[t].job, StudentOf[t]), TRUE} :
         /\ applications' =
              IF error THEN applications
              ELSE Append(applications,
                          [job_id |-> procs[t].job, student_id |-> StudentOf[t]])
         /\ procs' = [procs EXCEPT ![t] =
                        [pc |-> "done", job |-> procs[t].job, existing |-> FALSE,
                         toast |-> IF error THEN "Error" ELSE "Success!"]]
    /\ UNCHANGED <<otpVars, recVars, outbox>>

\* finally { setApplying(null) }
ApplyDone(t) ==
    /\ procs[t].pc = "done"
    /\ procs' = [procs EXCEPT ![t] = SessionIdle]
    /\ UNCHANGED <<applications, otpVars, recVars, outbox>>

ApplyInit ==
    /\ OtpInit
    /\ RecQuiet
    /\ applications = <<>>
    /\ procs = [t \in Sessions |-> SessionIdle]
    /\ outbox = <<>>

ApplyNext ==
    \E t \in Sessions : ApplyClick(t) \/ ApplyCheck(t) \/ ApplyInsert(t) \/ ApplyDone(t)

ApplySpec == ApplyInit /\ [][ApplyNext]_vars

\* C23: whatever the students' tabs do, also when two applies of one student
\* to one job both pass the already-applied check before either inserts, the
\* table holds at most one row per (job, student); an insert for a pair that
\* has a row ends in the error toast and records nothing, and an apply that
\* finds the row at its check records nothing either.
C23_OneApplicationPerPair ==
    /\ [](\A i, j \in DOMAIN applications :
            (/\ applications[i].job_id = applications[j].job_id
             /\ applications[i].student_id = applications[j].student_id) => i = j)
    /\ [][\A t \in Sessions :
            (/\ procs[t].pc \in {"check", "insert"}
             /\ procs'[t].pc = "done"
             /\ Existing(applications, procs[t].job, StudentOf[t]))
            => /\ procs'[t].toast \in {"Error", "Already Applied"}
               /\ applications' = applications]_vars

\* both tabs of a student passed the check for the same job; one insert was
\* recorded and the other ended in the error toast
C23_Witness ==
    /\ procs # <<>>
    /\ procs["tab1"].pc = "done" /\ procs["tab2"].pc = "done"
    /\ procs["tab1"].job = procs["tab2"].job
    /\ ~procs["tab1"].existing /\ ~procs["tab2"].existing
    /\ procs["tab1"].toast = "Success!"
    /\ procs["tab2"].toast = "Error"
    /\ Len(SelectSeq(applications, LAMBDA r : r.student_id = "s1"
                                               /\ r.job_id = procs["tab1"].job)) = 1


\* C27 (as claimed): every verify-otp request that returns a success response
\* has marked the matched code row verified by the time it returns, whatever
\* the purpose, whether or not name and role are present, and whether or not
\* an account exists for the email.
C27_SuccessMarksRowVerified ==
    last = Idle =>
      \A req \in VerifyRequests :
        \A out \in VerifyOtpHandler(req) :
          out.resp.status = 200 =>
            \E r \in TurnedVerified(out) :
              r.email = req.email /\ Trim(r.otp) = Trim(req.otp)


\* the rows of an email that a verify-otp request can still succeed with:
\* the most recently issued row of the email, as long as it is unverified
MostRecentlyIssued(rows, email) ==
    {r \in rows : /\ r.email = email
                  /\ ~r.verified
                  /\ \A s \in rows : s.email = email => s.id <= r.id}

Runs == {"r1", "r2"}

RunIdle == [pc |-> "idle"]

Run(p) == procs.run[p]

\* signup with and without name and role, and reset, with the right code
\* (as typed, with blanks around it) and with a wrong one
RaceRequests ==
    {req \in VerifyRequests :
       /\ req.email = "a@x"
       /\ req.otp # NoOtp
       /\ req.purpose # Undefined
       /\ (req.name = Undefined <=> req.role = Undefined)
       /\ (req.purpose = "reset" => req.name = Undefined)}

\* Math.random().toString(36) of two runs: the two draws differ
RunPassword == [r1 |-> "pwA", r2 |-> "pwB"]

\* a run between two awaits: the request, the row it read and when, the
\* password it generated and the account it works on
InFlight(pc, req, otpRecord, readAt, tempPassword, user_id) ==
    [pc |-> pc, req |-> req, otpRecord |-> otpRecord, readAt |-> readAt,
     tempPassword |-> tempPassword, user_id |-> user_id]

\* a run whose response is on its way to the caller
Responding(req, otpRecord, resp) ==
    [pc |-> "done", req |-> req, otpRecord |-> otpRecord, resp |-> resp]

NoRow == [id |-> 0]

\* the expiry check, the attempt check and the comparison, on the copy of
\* the row that the lookup returned: where the run goes next
Checked(req, otpRecord, tempPassword) ==
    LET purpose == Default(req.purpose, "signup")
    IN
    IF Expired(otpRecord)
      THEN {Responding(req, otpRecord, Response(400, "OTP has expired"))}
    ELSE IF AttemptsExhausted(otpRecord)
      THEN {Responding(req, otpRecord,
              Response(400, "Too many failed attempts. Please request a new OTP"))}
    ELSE IF Mismatch(otpRecord, req.otp)
      THEN {InFlight("increment", req, otpRecord, now, Undefined, 0)}
    ELSE IF (purpose = "signup" /\ ~Falsy(req.name) /\ ~Falsy(req.role))
              \/ purpose = "reset"
      THEN {InFlight("listUsers", req, otpRecord, now, tempPassword, 0)}
    ELSE {Responding(req, otpRecord, Success(tempPassword))}

\* await req.json(); the requests carry the required fields
VerifyReceive(p) ==
    /\ Run(p) = RunIdle
    /\ \E req \in RaceRequests :
         procs' = [procs EXCEPT !.run[p] =
                     InFlight("lookup", req, NoRow, now, Undefined, 0)]
    /\ UNCHANGED <<otpVars, recVars, applications, outbox>>

\* the select of the latest unverified row, then the checks on what it returned
VerifyLookup(p) ==
    /\ Run(p).pc = "lookup"
    /\ LET req == Run(p).req
           found == LatestUnverified(otp_verifications, req.email)
       IN \E to \in {Responding(req, NoRow, Response(500, "Failed to verify OTP"))}
                    \cup (IF found = {}
                            THEN {Responding(req, NoRow,
                                    Response(404, "No OTP found for this email"))}
                            ELSE UNION {Checked(req, otpRecord, RunPassword[p])
                                        : otpRecord \in found}) :
            procs' = [procs EXCEPT
                        !.run[p] = to,
                        !.evaluated = IF to.pc = "increment" /\ @ <= MaxAttempts
                                        THEN @ + 1 ELSE @]
    /\ UNCHANGED <<otpVars, recVars, applications, outbox>>

\* the update of attempts after a mismatch, and the mismatch response
VerifyIncrement(p) ==
    /\ Run(p).pc = "increment"
    /\ otp_verifications' = IncrementAttempts(otp_verifications, Run(p).otpRecord)
    /\ procs' = [procs EXCEPT !.run[p] =
                   Responding(Run(p).req, Run(p).otpRecord,
                              MismatchResponse(Run(p).otpRecord))]
    /\ UNCHANGED <<users, user_roles, profiles, pre_registered_students,
                   pre_registered_teachers, now, nextId, last>>
    /\ UNCHANGED <<recVars, applications, outbox>>

\* auth.admin.listUsers() of the signup branch and of the reset branch
VerifyListUsers(p) ==
    /\ Run(p).pc = "listUsers"
    /\ LET req == Run(p).req
           found == {u \in users : u.email = req.email}
       IN \E to \in (IF req.purpose = "reset"
                       THEN IF found = {}
                              THEN {Responding(req, Run(p).otpRecord,
                                               Success(Run(p).tempPassword))}
                              ELSE {[Run(p) EXCEPT !.pc = "updateUserById",
                                                   !.user_id = u.id] : u \in found}
                     ELSE IF UserExists(users, req.email)
                       THEN {Responding(req, Run(p).otpRecord,
                               Response(400, "A user with this email already exists"))}
                       ELSE {[Run(p) EXCEPT !.pc = "createUser"]}) :
            procs' = [procs EXCEPT !.run[p] = to]
    /\ UNCHANGED <<otpVars, recVars, applications, outbox>>

\* auth.admin.createUser: the auth service refuses a second account for an
\* email, and the call can fail for other reasons
VerifyCreateUser(p) ==
    /\ Run(p).pc = "createUser"
    /\ LET req == Run(p).req
           created == CreateUser(Db, req.email, req.name, Run(p).tempPassword)
       IN \E signUpError \in {UserExists(users, req.email), TRUE} :
            IF signUpError
              THEN /\ procs' = [procs EXCEPT !.run[p] =
                          Responding(req, Run(p).otpRecord,
                                     Response(500, "Failed to create user account"))]
                   /\ UNCHANGED <<users, profiles>>
              ELSE /\ users' = created.users
                   /\ profiles' = created.profiles
                   /\ procs' = [procs EXCEPT !.run[p] =
                          [Run(p) EXCEPT !.pc = "insert user_roles",
                                         !.user_id = Cardinality(users) + 1]]
    /\ UNCHANGED <<otp_verifications, user_roles, pre_registered_students,
                   pre_registered_teachers, now, nextId, last>>
    /\ UNCHANGED <<recVars, applications, outbox>>

\* the insert of the role row (its error is only logged) and the update of
\* the profile of the new account; no other run touches the rows of this account
VerifyAssignRole(p) ==
    /\ Run(p).pc = "insert user_roles"
    /\ \E roleError \in BOOLEAN :
         LET written == UpdateProfile(AssignRole(Db, Run(p).user_id, Run(p).req.role,
                                                 roleError),
                                      Run(p).user_id, Run(p).req.name)
         IN /\ user_roles' = written.roles
            /\ profiles' = written.profiles
    /\ procs' = [procs EXCEPT !.run[p].pc = "update otp_verifications"]
    /\ UNCHANGED <<otp_verifications, users, pre_registered_students,
                   pre_registered_teachers, now, nextId, last>>
    /\ UNCHANGED <<recVars, applications, outbox>>

\* auth.admin.updateUserById and, when it succeeded, the update of
\* temp_password_used (it writes the same value whatever run makes it)
VerifyUpdatePassword(p) ==
    /\ Run(p).pc = "updateUserById"
    /\ \E updateError \in BOOLEAN :
         IF updateError
           THEN /\ procs' = [procs EXCEPT !.run[p] =
                       Responding(Run(p).req, Run(p).otpRecord,
                                  Response(500, "Failed to update password"))]
                /\ UNCHANGED <<users, profiles>>
           ELSE LET written == ClearTempPasswordUsed(
                                 UpdatePassword(Db, Run(p).user_id, Run(p).tempPassword),
                                 Run(p).user_id)
                IN /\ users' = written.users
                   /\ profiles' = written.profiles
                   /\ procs' = [procs EXCEPT !.run[p].pc = "update otp_verifications"]
    /\ UNCHANGED <<otp_verifications, user_roles, pre_registered_students,
                   pre_registered_teachers, now, nextId, last>>
    /\ UNCHANGED <<recVars, applications, outbox>>

\* .update({ verified: true }).eq("id", otpRecord.id) and the success response
VerifyMarkVerified(p) ==
    /\ Run(p).pc = "update otp_verifications"
    /\ otp_verifications' = MarkVerified(otp_verifications, Run(p).otpRecord)
    /\ procs' = [procs EXCEPT !.run[p] =
                   Responding(Run(p).req, Run(p).otpRecord,
                              Success(Run(p).tempPassword))]
    /\ UNCHANGED <<users, user_roles, profiles, pre_registered_students,
                   pre_registered_teachers, now, nextId, last>>
    /\ UNCHANGED <<recVars, applications, outbox>>

\* the caller receives the response
VerifyRespond(p) ==
    /\ Run(p).pc = "done"
    /\ procs' = [procs EXCEPT !.run[p] = RunIdle]
    /\ UNCHANGED <<otpVars, recVars, applications, outbox>>

\* the clock moves while requests are in flight
RaceTick ==
    /\ now + TickMinutes <= MaxTime
    /\ now' = now + TickMinutes
    /\ UNCHANGED <<otp_verifications, users, user_roles, profiles,
                   pre_registered_students, pre_registered_teachers, nextId, last>>
    /\ UNCHANGED <<recVars, auxVars>>

\* send-otp has issued a code to a@x; a@x may own an account already
RaceInit ==
    /\ otp_verifications =
         {[id |-> 1, email |-> "a@x", otp |-> Code1, created_at |-> 0,
           expires_at |-> ExpiryMinutes, verified |-> FALSE, attempts |-> 0]}
    /\ \E registered \in BOOLEAN :
         /\ users = IF registered
                      THEN {[id |-> 1, email |-> "a@x", password |-> "pw0"]}
                      ELSE {}
         /\ profiles = IF registered
                         THEN {[id |-> 1, email |-> "a@x", name |-> "Asha",
                                temp_password_used |-> TRUE]}
                         ELSE {}
         /\ user_roles = IF registered
                           THEN {[user_id |-> 1, role |-> "student"]}
                           ELSE {}
    /\ pre_registered_students = {"a@x"}
    /\ pre_registered_teachers = {}
    /\ now = 0
    /\ nextId = 2
    /\ last = Idle
    /\ RecQuiet
    /\ applications = <<>>
    /\ outbox = <<>>
    /\ procs = [run |-> [p \in Runs |-> RunIdle], evaluated |-> 0]

RaceNext ==
    \/ \E p \in Runs :
         \/ VerifyReceive(p)
         \/ VerifyLookup(p)
         \/ VerifyIncrement(p)
         \/ VerifyListUsers(p)
         \/ VerifyCreateUser(p)
         \/ VerifyAssignRole(p)
         \/ VerifyUpdatePassword(p)
         \/ VerifyMarkVerified(p)
         \/ VerifyRespond(p)
    \/ RaceTick

RaceSpec == RaceInit /\ [][RaceNext]_vars


\* run p compared a wrong code with the row it read and has written the count
Miscounted(p) ==
    /\ Run(p).pc = "done"
    /\ Run(p).otpRecord # NoRow
    /\ Run(p).resp = MismatchResponse(Run(p).otpRecord)

\* C24: two verify-otp requests with wrong codes can both read the same
\* attempts value a before either writes: each write stores the value its own
\* run read plus one, so after the two failed attempts the row holds a + 1,
\* and more than 5 wrong guesses get compared with one code row.
C24_RacingAttemptsUndercount ==
    /\ [](\A p, q \in Runs :
            (/\ p # q
             /\ Miscounted(p) /\ Miscounted(q)
             /\ Run(p).otpRecord = Run(q).otpRecord) =>
              \A r \in otp_verifications :
                r.id = Run(p).otpRecord.id =>
                  r.attempts = Run(p).otpRecord.attempts + 1)
    /\ [][\A p \in Runs :
            (Run(p).pc = "increment" /\ procs'.run[p].pc = "done") =>
              \A r \in otp_verifications' :
                r.id = Run(p).otpRecord.id =>
                  r.attempts = Run(p).otpRecord.attempts + 1]_vars

\* both runs read attempts = 4 and both were told the guess was wrong; the
\* row counts 5 attempts, and 6 wrong guesses were compared with it
C24_Witness ==
    /\ procs # <<>>
    /\ Miscounted("r1") /\ Miscounted("r2")
    /\ Run("r1").otpRecord = Run("r2").otpRecord
    /\ Run("r1").otpRecord.attempts = MaxAttempts - 1
    /\ procs.evaluated > MaxAttempts
    /\ \A r \in otp_verifications : r.attempts <= MaxAttempts

\* C28 (as claimed): a code row yields at most one successful verification:
\* no two verify-otp requests, one after the other or interleaved, are both
\* answered with success for the same code row.
C28_RowVerifiesAtMostOnce ==
    \A p, q \in Runs :
      (/\ Run(p).pc = "done" /\ Run(p).resp.status = 200
       /\ Run(q).pc = "done" /\ Run(q).resp.status = 200
       /\ Run(p).otpRecord.id = Run(q).otpRecord.id) => p = q

\* C30 (as claimed): every code row has 0 <= attempts <= 5 in every reachable
\* state, no step lowers the attempts of a row, and a row is marked verified
\* only by a request that read attempts < 5 and an expires_at not yet passed.
C30_AttemptsBoundedMonotonic ==
    /\ [](\A r \in otp_verifications : 0 <= r.attempts /\ r.attempts <= MaxAttempts)
    /\ [][\A r \in otp_verifications : \A s \in otp_verifications' :
            s.id = r.id => s.attempts >= r.attempts]_vars
    /\ [][\A r \in otp_verifications : \A s \in otp_verifications' :
            (s.id = r.id /\ ~r.verified /\ s.verified) =>
              \E p \in Runs :
                /\ Run(p).pc = "update otp_verifications"
                /\ procs'.run[p].pc = "done"
                /\ Run(p).otpRecord.id = r.id
                /\ Run(p).otpRecord.attempts < MaxAttempts
                /\ Run(p).otpRecord.expires_at >= Run(p).readAt]_vars


(* ----------- generate-recommendations, requests that interleave -------- *)
\* Two requests of the candidate s1 (a double click, two tabs) are served at
\* once. The reads of part_003:31-92 are of tables that nothing writes here;
\* the delete (145-148) and the insert (150-170) are statements of their own.
Generations == {"g1", "g2"}

GenIdle == [pc |-> "idle"]

Gen(g) == procs[g]

\* a run between two awaits: the sorted list it computed, and whether its
\* delete took effect
Generating(pc, recs, deleted) == [pc |-> pc, recs |-> recs, deleted |-> deleted]

\* a run whose response is on its way
Generated(recs, deleted, resp) ==
    [pc |-> "done", recs |-> recs, deleted |-> deleted, resp |-> resp]

\* authentication, the reads, the scoring and the sort
GenCompute(g) ==
    /\ Gen(g) = GenIdle
    /\ \E profileLoaded \in ProfileLoaded :
         procs' = [procs EXCEPT ![g] =
           IF ~profileLoaded
             THEN Generated(<<>>, FALSE, RecResponse(500, "profileError"))
             ELSE Generating("delete",
                    SortByMatchScore(
                      Recommendations(offcampus_jobs,
                                      StudentSkills(student_profile.resume_skills))),
                    FALSE)]
    /\ UNCHANGED <<otpVars, recVars, applications, outbox>>

\* the delete of the candidate's rows; its result is not looked at
GenDelete(g) ==
    /\ Gen(g).pc = "delete"
    /\ \E deleteError \in BOOLEAN :
         /\ job_recommendations' =
              IF deleteError THEN job_recommendations
              ELSE DeleteRecommendations(job_recommendations, "s1")
         /\ procs' = [procs EXCEPT ![g] =
              IF Len(Gen(g).recs) > 0
                THEN Generating("insert", Gen(g).recs, ~deleteError)
                ELSE Generated(Gen(g).recs, ~deleteError, RecSuccess(Gen(g).recs))]
    /\ UNCHANGED <<student_profile, mock_results, interactive_interviews,
                   offcampus_jobs, recLast>>
    /\ UNCHANGED <<otpVars, applications, outbox>>

\* the insert of the list; if (insertError) throw insertError
GenInsert(g) ==
    /\ Gen(g).pc = "insert"
    /\ \E insertError \in BOOLEAN :
         IF insertError
           THEN /\ UNCHANGED job_recommendations
                /\ procs' = [procs EXCEPT ![g] =
                     Generated(Gen(g).recs, Gen(g).deleted,
                               RecResponse(500, "insertError"))]
           ELSE /\ Len(job_recommendations) + Len(Gen(g).recs) <= MaxStored
                /\ job_recommendations' =
                     InsertRecommendations(job_recommendations, "s1", Gen(g).recs)
                /\ procs' = [procs EXCEPT ![g] =
                     Generated(Gen(g).recs, Gen(g).deleted, RecSuccess(Gen(g).recs))]
    /\ UNCHANGED <<student_profile, mock_results, interactive_interviews,
                   offcampus_jobs, recLast>>
    /\ UNCHANGED <<otpVars, applications, outbox>>

\* the caller receives the response
GenRespond(g) ==
    /\ Gen(g).pc = "done"
    /\ procs' = [procs EXCEPT ![g] = GenIdle]
    /\ UNCHANGED <<otpVars, recVars, applications, outbox>>

\* a candidate with a parsed resume and some scores, up to MaxJobs postings,
\* no recommendation stored for the candidate yet
GenInit ==
    /\ OtpInit
    /\ student_profile \in {[found |-> TRUE, resume_skills |-> l] :
                              l \in {<<>>, <<python>>}}
    /\ mock_results \in {<<>>, <<80>>}
    /\ interactive_interviews = <<60>>
    /\ offcampus_jobs \in Postings
    /\ job_recommendations = <<OtherRow>>
    /\ recLast = RecIdle
    /\ applications = <<>>
    /\ outbox = <<>>
    /\ procs = [g \in Generations |-> GenIdle]

GenNext ==
    \E g \in Generations :
      GenCompute(g) \/ GenDelete(g) \/ GenInsert(g) \/ GenRespond(g)

GenSpec == GenInit /\ [][GenNext]_vars

\* both runs were answered with success and the delete of each took effect
BothReplaced ==
    \A g \in Generations :
      /\ Gen(g).pc = "done"
      /\ Gen(g).resp.status = 200
      /\ Gen(g).deleted
      /\ Len(Gen(g).recs) > 0

\* the rows that job_recommendations holds for the candidate and posting job_id
RowsFor(job_id) ==
    SelectSeq(job_recommendations,
              LAMBDA r : r.student_id = "s1" /\ r.job_id = job_id)

\* C25: the delete and the insert of a generation request are two statements
\* and the table has no key on (student, posting): an insert adds the rows of
\* its list after whatever the table holds, so when the deletes of two
\* requests of a candidate both come before their inserts, the candidate ends
\* with two rows for every posting of the list (and with one when the
\* requests do not overlap that way).
C25_InterleavedRunsDuplicateRows ==
    /\ [][\A g \in Generations :
            (/\ Gen(g).pc = "insert"
             /\ procs'[g].pc = "done"
             /\ procs'[g].resp.status = 200) =>
              job_recommendations' =
                job_recommendations
                  \o [i \in 1..Len(Gen(g).recs) |-> Row("s1", Gen(g).recs[i])]]_vars
    /\ [](BothReplaced =>
            \E copies \in {1, 2} :
              \A i \in 1..Len(Gen("g1").recs) :
                Len(RowsFor(Gen("g1").recs[i].job_id)) = copies)

\* both requests deleted, then both inserted: two rows for each posting
C25_Witness ==
    /\ procs # <<>>
    /\ BothReplaced
    /\ Len(Gen("g1").recs) = 2
    /\ \A i \in 1..Len(Gen("g1").recs) :
         Len(RowsFor(Gen("g1").recs[i].job_id)) = 2


(* ------------------------- bulk notifications -------------------------- *)
\* send-notification-email mails every student (emailPromises, one async
\* function per student, awaited together); process-announcement mails the
\* students of the uploaded sheet one after the other and then, for a
\* shortlisting, the parents. procs is the handler run, outbox the sends
\* it has attempted, in the order they settled.
NotifyIdle == [pc |-> "idle"]

Student(i) == <<"student", i>>
Parent(i) == <<"parent", i>>

\* the place of a recipient in the loops of process-announcement
Rank(r) == IF r[1] = "student" THEN r[2] ELSE MaxRecipients + 1 + r[2]

\* a run that is sending
Sending(op, recipients, pending) ==
    [pc |-> "sending", op |-> op, recipients |-> recipients, pending |-> pending,
     resp |-> [status |-> 0, notified |-> 0]]

\* a run whose response is on its way
Notified(op, recipients, pending, status) ==
    [pc |-> "done", op |-> op, recipients |-> recipients, pending |-> pending,
     resp |-> [status |-> status,
               notified |-> IF status = 200 THEN Cardinality(recipients) ELSE 0]]

\* (mutant) the error of a send is not caught around the send
CaughtNever(ok) == ok

\* try { await ...send(...) } catch (error) { console.error(...) }:
\* whether the run goes on after a send that ended as ok tells
Caught(ok) == TRUE

\* send-notification-email up to the fan-out: the profiles are fetched
\* (no data: throw) and filtered to the students
NotifyReceive ==
    /\ procs = NotifyIdle
    /\ \E n \in 0..MaxRecipients : \E allProfiles \in BOOLEAN :
         procs' = IF allProfiles
                    THEN Sending("send-notification-email",
                                 {Student(i) : i \in 1..n}, {Student(i) : i \in 1..n})
                    ELSE Notified("send-notification-email", {}, {}, 500)
    /\ outbox' = <<>>
    /\ UNCHANGED <<otpVars, recVars, applications>>

\* process-announcement up to the loops: the sheet is read, the profiles of
\* its students are selected (studentsError: throw)
AnnounceReceive ==
    /\ procs = NotifyIdle
    /\ \E n \in 0..MaxRecipients : \E m \in 0..MaxRecipients :
       \E category \in {"shortlisting", "placement_drive"} :
       \E studentsError \in BOOLEAN :
         LET to == {Student(i) : i \in 1..n}
                   \cup (IF category = "shortlisting"
                           THEN {Parent(i) : i \in 1..m} ELSE {})
         IN procs' = IF studentsError
                       THEN Notified("process-announcement", {}, {}, 500)
                       ELSE Sending("process-announcement", to, to)
    /\ outbox' = <<>>
    /\ UNCHANGED <<otpVars, recVars, applications>>

\* the recipients whose send can settle next: any of the promises of
\* send-notification-email, the next of the loops of process-announcement
Sendable ==
    IF procs.op = "send-notification-email"
      THEN procs.pending
      ELSE {r \in procs.pending : \A q \in procs.pending : Rank(r) <= Rank(q)}

\* one send settles, delivered or failed
NotifySend ==
    /\ procs.pc = "sending"
    /\ \E r \in Sendable : \E ok \in BOOLEAN :
         /\ outbox' = Append(outbox, [to |-> r, ok |-> ok])
         /\ procs' = IF Caught(ok)
                       THEN Sending(procs.op, procs.recipients, procs.pending \ {r})
                       ELSE Notified(procs.op, procs.recipients,
                                     procs.pending \ {r}, 500)
    /\ UNCHANGED <<otpVars, recVars, applications>>

\* await Promise.all(emailPromises) / the end of the loops: the response
NotifyRespond ==
    /\ procs.pc = "sending"
    /\ procs.pending = {}
    /\ procs' = Notified(procs.op, procs.recipients, {}, 200)
    /\ UNCHANGED <<otpVars, recVars, applications, outbox>>

\* the caller receives the response
NotifyReturn ==
    /\ procs.pc = "done"
    /\ procs' = NotifyIdle
    /\ UNCHANGED <<otpVars, recVars, applications, outbox>>

NotifyInit ==
    /\ OtpInit
    /\ RecQuiet
    /\ applications = <<>>
    /\ procs = NotifyIdle
    /\ outbox = <<>>

NotifyNext ==
    NotifyReceive \/ AnnounceReceive \/ NotifySend \/ NotifyRespond \/ NotifyReturn

NotifySpec == NotifyInit /\ [][NotifyNext]_vars

\* the sends attempted to recipient r
Attempts(r) == {k \in DOMAIN outbox : outbox[k].to = r}

\* C26: in a bulk notification a failed send to one recipient does not abort
\* the others: after a failed send the run is still sending to the same
\* recipients, a run that has started sending ends only with every recipient
\* attempted exactly once and with a success response that counts them all.
C26_FailedSendDoesNotAbort ==
    /\ [][(/\ procs.pc = "sending"
           /\ Len(outbox') = Len(outbox) + 1
           /\ ~outbox'[Len(outbox')].ok) =>
            /\ procs'.pc = "sending"
            /\ procs'.recipients = procs.recipients
            /\ procs'.pending = procs.pending \ {outbox'[Len(outbox')].to}]_vars
    /\ [][(procs.pc = "sending" /\ procs'.pc = "done") =>
            /\ procs'.resp.status = 200
            /\ procs'.resp.notified = Cardinality(procs.recipients)
            /\ \A r \in procs.recipients : Cardinality(Attempts(r)) = 1
            /\ Len(outbox) = Cardinality(procs.recipients)]_vars

\* the first send failed, the other recipients were attempted all the same,
\* and the request was answered with success
C26_Witness ==
    /\ procs # <<>>
    /\ procs.pc = "done"
    /\ procs.resp.status = 200
    /\ Cardinality(procs.recipients) = MaxRecipients
    /\ Len(outbox) = MaxRecipients
    /\ ~outbox[1].ok
    /\ \A r \in procs.recipients : Cardinality(Attempts(r)) = 1

====
